---- MODULE Spec2Model ----
(***************************************************************************)
(* hr_employee_appraisal: template selection, criteria loading, scoring    *)
(* and spreadsheet export/import on an hr.appraisal record                 *)
(* (models/hr_appraisal_inherit.py) and its criteria lines                 *)
(* (models/hr_appraisal_okr_line.py, models/hr_appraisal_ninebox_line.py). *)
(*                                                                         *)
(* One record is followed through its form: an hr.appraisal with its       *)
(* onchange handlers, its buttons and edits of its criteria lines, or an   *)
(* hr.employee.appraisal (models/hr_employee_appraisal.py) with its        *)
(* appraisal.criteria.data records (models/appraisal_criteria_data.py).    *)
(* The two models share no field, so a behaviour follows one of them.  The *)
(* records of the other modules (employees, teams, templates) are a fixed  *)
(* database.                                                               *)
(*                                                                         *)
(* Float fields are exact rationals <<n, d>> (d > 0, lowest terms): the    *)
(* arithmetic of the compute methods is the arithmetic of the source, with *)
(* no binary rounding and without the rounding the ORM applies to a field *)
(* declared with digits.  round(x, 2) of the spreadsheet generators is     *)
(* modelled, since the source calls it.                                    *)
(***************************************************************************)
EXTENDS Integers, Sequences, FiniteSets, TLC

\* ------------------------------------------------------------ rationals

RECURSIVE GCD(_, _)
GCD(a, b) == IF b = 0 THEN a ELSE GCD(b, a % b)

Abs(i) == IF i < 0 THEN -i ELSE i

\* n/d in lowest terms, d # 0.
Rat(n, d) ==
    LET s == IF d < 0 THEN -1 ELSE 1
        g == GCD(Abs(n), Abs(d))
    IN  <<(s * n) \div g, (s * d) \div g>>

R(i) == <<i, 1>>
\* A decimal literal with three places: Dec(1236) is 1.236.
Dec(k) == Rat(k, 1000)

RatAdd(p, q) == Rat(p[1] * q[2] + q[1] * p[2], p[2] * q[2])
RatSub(p, q) == Rat(p[1] * q[2] - q[1] * p[2], p[2] * q[2])
RatMul(p, q) == Rat(p[1] * q[1], p[2] * q[2])
\* p / q, q # 0.
RatDiv(p, q) == Rat(p[1] * q[2], p[2] * q[1])
RatAbs(p)    == <<Abs(p[1]), p[2]>>
RatLT(p, q)  == p[1] * q[2] < q[1] * p[2]
RatGT(p, q)  == RatLT(q, p)
RatGE(p, q)  == ~RatLT(p, q)
RatIsZero(p) == p[1] = 0

RECURSIVE RatSum(_)
\* Python's sum() over a list of floats.
RatSum(s) == IF s = <<>> THEN R(0) ELSE RatAdd(Head(s), RatSum(Tail(s)))

\* Python's round(x, 2): the nearest multiple of 0.01, a tie going to the
\* even one.
Round2(p) ==
    LET m == 100 * p[1]
        q == m \div p[2]
        r == m % p[2]
    IN  IF 2 * r < p[2] THEN Rat(q, 100)
        ELSE IF 2 * r > p[2] THEN Rat(q + 1, 100)
        ELSE IF q % 2 = 0 THEN Rat(q, 100) ELSE Rat(q + 1, 100)

\* ------------------------------------------------------------ sequences

RECURSIVE Concat(_)
\* The concatenation of a sequence of sequences.
Concat(ss) == IF ss = <<>> THEN <<>> ELSE Head(ss) \o Concat(Tail(ss))

Range(s) == {s[i] : i \in 1..Len(s)}

\* ------------------------------------------- the database (other modules)

\* Odoo's False in a Many2one or Selection field.
NoRecord == "False"

\* hr.employee records; barcode is the badge code ("" when the employee has
\* none).
Employees == {"e1", "e2", "e3", "e4", "e5"}
barcode(e) == IF e = "e3" THEN "" ELSE "B-" \o e

\* oh.appraisal.team records and their member_ids.
Teams == {"tA", "tB", "tC", "tD"}
member_ids(t) ==
    CASE t = "tA" -> {"e1", "e3", "e5"}
      [] t = "tB" -> {"e2"}
      [] t = "tC" -> {"e3"}
      [] t = "tD" -> {"e5"}

\* appraisal.evaluation.type records, by code, in _order (sequence, id).
EvalTypeOrder == <<"department", "role", "common">>
EvalTypes == Range(EvalTypeOrder)

\* A template sub-record (OKR key result, 9-box performance or potential
\* line): the fields the loaders copy.
Row(obj, team, target, actual, weightage) ==
    [objective_breakdown |-> obj, team_id |-> team, target_value |-> target,
     actual_value |-> actual, distributed_weightage |-> weightage]

\* oh.appraisal.okr.template records: active, the teams of weightage_ids,
\* and the three key-result lists.
OkrTemplates == {"O1", "O2", "O3"}
OkrTemplate(t) ==
    CASE t = "O1" ->
           [active |-> TRUE, weightage_team_ids |-> {"tA"},
            department_key_result_ids |->
                <<Row("o1-dept-A", "tA", R(2), R(0), R(60)),
                  Row("o1-dept-B", "tB", R(5), R(1), R(50))>>,
            role_key_result_ids |->
                <<Row("o1-role-A", "tA", R(3), R(1), R(40))>>,
            common_key_result_ids |-> <<>>]
      [] t = "O2" ->
           [active |-> TRUE, weightage_team_ids |-> {"tC", "tD"},
            department_key_result_ids |->
                <<Row("o2-dept-C", "tC", R(4), R(2), R(150))>>,
            role_key_result_ids |->
                <<Row("o2-role-D", "tD", R(2), R(0), R(100))>>,
            common_key_result_ids |->
                <<Row("o2-common-C", "tC", R(0), R(1), R(100)),
                  Row("o2-common-D", "tD", R(-1), R(1), R(0))>>]
      [] t = "O3" ->
           [active |-> FALSE, weightage_team_ids |-> {"tB"},
            department_key_result_ids |->
                <<Row("o3-dept-B", "tB", R(1), R(0), R(100))>>,
            role_key_result_ids |-> <<>>,
            common_key_result_ids |-> <<>>]

\* oh.appraisal.ninebox.template records: active, the teams of the
\* performance and of the potential oh.appraisal.ninebox.weightage rows, and
\* the six line lists.
NineboxTemplates == {"N1", "N2"}
NineboxTemplate(t) ==
    CASE t = "N1" ->
           [active |-> TRUE, performance_weightage_team_ids |-> {"tB"},
            potential_weightage_team_ids |-> {"tC"},
            performance_dept_line_ids |->
                <<Row("n1-perf-dept-B", "tB", R(2), R(1), R(50))>>,
            performance_role_line_ids |->
                <<Row("n1-perf-role-B", "tB", R(4), R(0), R(50)),
                  Row("n1-perf-role-C", "tC", R(3), R(3), R(100))>>,
            performance_common_line_ids |-> <<>>,
            potential_dept_line_ids |->
                <<Row("n1-pot-dept-B", "tB", R(4), R(1), R(150))>>,
            potential_role_line_ids |-> <<>>,
            potential_common_line_ids |->
                <<Row("n1-pot-common-C", "tC", R(5), R(0), R(100))>>]
      [] t = "N2" ->
           [active |-> FALSE, performance_weightage_team_ids |-> {"tA"},
            potential_weightage_team_ids |-> {},
            performance_dept_line_ids |->
                <<Row("n2-perf-dept-A", "tA", R(1), R(0), R(100))>>,
            performance_role_line_ids |-> <<>>,
            performance_common_line_ids |-> <<>>,
            potential_dept_line_ids |-> <<>>,
            potential_role_line_ids |-> <<>>,
            potential_common_line_ids |-> <<>>]

\* survey.survey records.
Surveys == {"S1"}

\* employee.badge is a view over hr.employee: one row, with the employee's
\* id, for each employee that has a barcode.
Badges == {e \in Employees : barcode(e) # ""}
badge_employee_id(b) == b

\* ------------------------------------------------------- criteria lines

\* HrAppraisalOKRLine._compute_achievement
OKRLine_compute_achievement(line) ==
    IF RatGT(line.target_value, R(0))
    THEN RatMul(RatDiv(line.actual_value, line.target_value), R(100))
    ELSE R(0)

\* HrAppraisalOKRLine._compute_weighted_score
OKRLine_compute_weighted_score(line) ==
    RatMul(RatDiv(line.achievement_percentage, R(100)), line.weightage)

\* HrAppraisalOKRLine._check_weightage: TRUE when it raises.
OKRLine_check_weightage(line) ==
    RatLT(line.weightage, R(0)) \/ RatGT(line.weightage, R(100))

\* HrAppraisalNineboxPerformanceLine._compute_achievement
PerformanceLine_compute_achievement(line) ==
    IF RatGT(line.target_value, R(0))
    THEN RatMul(RatDiv(line.actual_value, line.target_value), R(100))
    ELSE R(0)

\* Faulty variant of HrAppraisalNineboxPerformanceLine._compute_weighted_score:
\* the percentage is not divided by 100.
PerformanceLine_compute_weighted_score_percent(line) ==
    RatMul(line.achievement_percentage, line.weightage)

\* HrAppraisalNineboxPerformanceLine._compute_weighted_score
PerformanceLine_compute_weighted_score(line) ==
    RatMul(RatDiv(line.achievement_percentage, R(100)), line.weightage)

\* HrAppraisalNineboxPotentialLine._compute_achievement
PotentialLine_compute_achievement(line) ==
    IF RatGT(line.target_value, R(0))
    THEN RatMul(RatDiv(line.actual_value, line.target_value), R(100))
    ELSE R(0)

\* HrAppraisalNineboxPotentialLine._compute_weighted_score
PotentialLine_compute_weighted_score(line) ==
    RatMul(RatDiv(line.achievement_percentage, R(100)), line.weightage)

\* The three One2many fields of hr.appraisal that hold criteria lines.
LineFields ==
    {"okr_line_ids", "ninebox_performance_line_ids",
     "ninebox_potential_line_ids"}

\* The stored computed fields of a line, recomputed from the fields they
\* depend on (the @api.depends of each model): achievement first, the
\* weighted score from it.
LineRecompute(field, line) ==
    LET a == CASE field = "okr_line_ids" ->
                    OKRLine_compute_achievement(line)
               [] field = "ninebox_performance_line_ids" ->
                    PerformanceLine_compute_achievement(line)
               [] field = "ninebox_potential_line_ids" ->
                    PotentialLine_compute_achievement(line)
        l1 == [line EXCEPT !.achievement_percentage = a]
        w == CASE field = "okr_line_ids" ->
                    OKRLine_compute_weighted_score(l1)
               [] field = "ninebox_performance_line_ids" ->
                    PerformanceLine_compute_weighted_score(l1)
               [] field = "ninebox_potential_line_ids" ->
                    PotentialLine_compute_weighted_score(l1)
    IN  [l1 EXCEPT !.weighted_score = w]

\* The @api.constrains of a line model: only hr.appraisal.okr.line declares
\* one.  TRUE when the create or write raises ValidationError.
LineConstraintFails(field, line) ==
    field = "okr_line_ids" /\ OKRLine_check_weightage(line)

\* The vals dictionary the loaders build for one template row.
LineVals(sequence, code, row) ==
    [sequence |-> sequence, line_type |-> code,
     objective_breakdown |-> row.objective_breakdown,
     target_value |-> row.target_value,
     actual_value |-> row.actual_value,
     weightage |-> row.distributed_weightage,
     team_id |-> row.team_id,
     achievement_percentage |-> R(0), weighted_score |-> R(0)]

\* Model.create(vals_list) of a line model: the new records with their
\* computed fields, or an error when a constraint rejects one of them.
LineCreate(field, vals_list) ==
    LET made == [i \in 1..Len(vals_list) |-> LineRecompute(field, vals_list[i])]
    IN  [ok |-> \A i \in 1..Len(made) : ~LineConstraintFails(field, made[i]),
         lines |-> made]

RECURSIVE InsertBySequence(_, _, _)
\* Index i put into the index list idx, after every index whose line has a
\* sequence less than or equal to its own.
InsertBySequence(lines, idx, i) ==
    IF idx = <<>> THEN <<i>>
    ELSE IF lines[Head(idx)].sequence <= lines[i].sequence
         THEN <<Head(idx)>> \o InsertBySequence(lines, Tail(idx), i)
         ELSE <<i>> \o idx

RECURSIVE SortedIndexes(_, _)
\* recordset.sorted('sequence'): the indexes 1..n of lines, in the order of
\* a stable sort by sequence.
SortedIndexes(lines, n) ==
    IF n = 0 THEN <<>>
    ELSE InsertBySequence(lines, SortedIndexes(lines, n - 1), n)

sorted(lines) == SortedIndexes(lines, Len(lines))

\* ------------------------------------------ hr.appraisal: computed fields

\* HrAppraisalInherit._compute_employee_teams: employee_team_ids.
_compute_employee_teams(self) ==
    IF self.employee_id # NoRecord
    THEN {t \in Teams : self.employee_id \in member_ids(t)}
    ELSE {}

\* The computation without the filter on active.
_compute_available_templates_archived_too(self) ==
    LET employee_team_ids == _compute_employee_teams(self)
        found == self.employee_id # NoRecord /\ employee_team_ids # {}
        okr_templates ==
            IF found
            THEN {t \in OkrTemplates :
                    OkrTemplate(t).weightage_team_ids \cap employee_team_ids # {}}
            ELSE {}
        ninebox_templates ==
            IF found
            THEN {t \in NineboxTemplates :
                    \/ NineboxTemplate(t).performance_weightage_team_ids
                           \cap employee_team_ids # {}
                    \/ NineboxTemplate(t).potential_weightage_team_ids
                           \cap employee_team_ids # {}}
            ELSE {}
    IN  [available_okr_template_ids |-> okr_templates,
         available_ninebox_template_ids |-> ninebox_templates,
         has_okr_templates |-> okr_templates # {},
         has_ninebox_templates |-> ninebox_templates # {}]

\* HrAppraisalInherit._compute_available_templates
_compute_available_templates(self) ==
    LET employee_team_ids == _compute_employee_teams(self)
        found == self.employee_id # NoRecord /\ employee_team_ids # {}
        okr_templates ==
            IF found
            THEN {t \in OkrTemplates :
                    /\ OkrTemplate(t).weightage_team_ids \cap employee_team_ids # {}
                    /\ OkrTemplate(t).active}
            ELSE {}
        ninebox_templates ==
            IF found
            THEN {t \in NineboxTemplates :
                    /\ \/ NineboxTemplate(t).performance_weightage_team_ids
                              \cap employee_team_ids # {}
                       \/ NineboxTemplate(t).potential_weightage_team_ids
                              \cap employee_team_ids # {}
                    /\ NineboxTemplate(t).active}
            ELSE {}
    IN  [available_okr_template_ids |-> okr_templates,
         available_ninebox_template_ids |-> ninebox_templates,
         has_okr_templates |-> okr_templates # {},
         has_ninebox_templates |-> ninebox_templates # {}]

\* mapped('weighted_score') of a line list.
mapped_weighted_score(lines) == [i \in 1..Len(lines) |-> lines[i].weighted_score]

\* HrAppraisalInherit._compute_total_scores
_compute_total_scores(self) ==
    [self EXCEPT
        !.total_okr_score = RatSum(mapped_weighted_score(self.okr_line_ids)),
        !.total_performance_score =
            RatSum(mapped_weighted_score(self.ninebox_performance_line_ids)),
        !.total_potential_score =
            RatSum(mapped_weighted_score(self.ninebox_potential_line_ids))]

\* Faulty variant of _compute_final_score: the 9-box score is the sum of the
\* two totals, not their average.
_compute_final_score_sum(self) ==
    [self EXCEPT !.final_score =
        IF self.appraisal_template_type = "okr" THEN self.total_okr_score
        ELSE IF self.appraisal_template_type = "ninebox"
        THEN IF ~RatIsZero(self.total_performance_score)
                \/ ~RatIsZero(self.total_potential_score)
             THEN RatAdd(self.total_performance_score,
                         self.total_potential_score)
             ELSE R(0)
        ELSE R(0)]

\* HrAppraisalInherit._compute_final_score
_compute_final_score(self) ==
    [self EXCEPT !.final_score =
        IF self.appraisal_template_type = "okr" THEN self.total_okr_score
        ELSE IF self.appraisal_template_type = "ninebox"
        THEN IF ~RatIsZero(self.total_performance_score)
                \/ ~RatIsZero(self.total_potential_score)
             THEN RatDiv(RatAdd(self.total_performance_score,
                                self.total_potential_score), R(2))
             ELSE R(0)
        ELSE R(0)]

\* Faulty variant of _compute_performance_rating: the band 'exceeds' starts
\* above 75, not at 75.
_compute_performance_rating_above_75(self) ==
    [self EXCEPT !.performance_rating =
        IF RatGE(self.final_score, R(90)) THEN "outstanding"
        ELSE IF RatGT(self.final_score, R(75)) THEN "exceeds"
        ELSE IF RatGE(self.final_score, R(60)) THEN "meets"
        ELSE IF RatGE(self.final_score, R(40)) THEN "needs_improvement"
        ELSE "unsatisfactory"]

\* Faulty variant of _compute_performance_rating: the labels of the bands
\* from 60 and from 75 are exchanged.
_compute_performance_rating_exchanged(self) ==
    [self EXCEPT !.performance_rating =
        IF RatGE(self.final_score, R(90)) THEN "outstanding"
        ELSE IF RatGE(self.final_score, R(75)) THEN "meets"
        ELSE IF RatGE(self.final_score, R(60)) THEN "exceeds"
        ELSE IF RatGE(self.final_score, R(40)) THEN "needs_improvement"
        ELSE "unsatisfactory"]

\* HrAppraisalInherit._compute_performance_rating
_compute_performance_rating(self) ==
    [self EXCEPT !.performance_rating =
        IF RatGE(self.final_score, R(90)) THEN "outstanding"
        ELSE IF RatGE(self.final_score, R(75)) THEN "exceeds"
        ELSE IF RatGE(self.final_score, R(60)) THEN "meets"
        ELSE IF RatGE(self.final_score, R(40)) THEN "needs_improvement"
        ELSE "unsatisfactory"]

\* The stored computed fields of the record, recomputed in the order of
\* their @api.depends: totals from the lines, the final score from the
\* totals and the type, the rating from the final score.
Recompute(self) ==
    _compute_performance_rating(_compute_final_score(_compute_total_scores(self)))

\* ------------------------------------- hr.appraisal: onchange handlers

\* HrAppraisalInherit._clear_template_selections, with the context key
\* clear_all_templates as a parameter.
_clear_template_selections(self, clear_all_templates) ==
    IF clear_all_templates
    THEN [self EXCEPT
            !.okr_template_id = NoRecord,
            !.ninebox_template_id = NoRecord,
            !.survey_id = NoRecord,
            !.evaluation_type_ids = {},
            !.okr_line_ids = <<>>,
            !.ninebox_performance_line_ids = <<>>,
            !.ninebox_potential_line_ids = <<>>,
            !.criteria_loaded = FALSE,
            !.okr_criteria_loaded = FALSE,
            !.ninebox_criteria_loaded = FALSE,
            !.appraisal_template_type =
                IF self.appraisal_template_type \in {"okr", "ninebox"}
                THEN "survey" ELSE self.appraisal_template_type]
    ELSE self

\* Faulty variant of _auto_detect_templates: takes an OKR template whenever
\* OKR templates are the only candidates, without the len(...) == 1 test.
_auto_detect_templates_any_okr(self) ==
    LET av == _compute_available_templates(self)
    IN  IF self.employee_id = NoRecord THEN self
        ELSE IF av.has_okr_templates /\ ~av.has_ninebox_templates
        THEN [self EXCEPT
                !.okr_template_id =
                    CHOOSE t \in av.available_okr_template_ids : TRUE,
                !.appraisal_template_type = "okr"]
        ELSE IF av.has_ninebox_templates /\ ~av.has_okr_templates
        THEN IF Cardinality(av.available_ninebox_template_ids) = 1
             THEN [self EXCEPT
                     !.ninebox_template_id =
                         CHOOSE t \in av.available_ninebox_template_ids : TRUE,
                     !.appraisal_template_type = "ninebox"]
             ELSE self
        ELSE self

\* HrAppraisalInherit._auto_detect_templates
_auto_detect_templates(self) ==
    LET av == _compute_available_templates(self)
    IN  IF self.employee_id = NoRecord THEN self
        ELSE IF av.has_okr_templates /\ ~av.has_ninebox_templates
        THEN IF Cardinality(av.available_okr_template_ids) = 1
             THEN [self EXCEPT
                     !.okr_template_id =
                         CHOOSE t \in av.available_okr_template_ids : TRUE,
                     !.appraisal_template_type = "okr"]
             ELSE self
        ELSE IF av.has_ninebox_templates /\ ~av.has_okr_templates
        THEN IF Cardinality(av.available_ninebox_template_ids) = 1
             THEN [self EXCEPT
                     !.ninebox_template_id =
                         CHOOSE t \in av.available_ninebox_template_ids : TRUE,
                     !.appraisal_template_type = "ninebox"]
             ELSE self
        ELSE self

\* HrAppraisalInherit._onchange_employee_badge_id
_onchange_employee_badge_id(self) ==
    IF self.employee_badge_id # NoRecord
       /\ badge_employee_id(self.employee_badge_id) # NoRecord
    THEN _auto_detect_templates(
             _clear_template_selections(
                 [self EXCEPT !.employee_id =
                     badge_employee_id(self.employee_badge_id)], TRUE))
    ELSE IF self.employee_badge_id = NoRecord
    THEN IF self.employee_id = NoRecord
         THEN _clear_template_selections(
                  [self EXCEPT !.employee_id = NoRecord], TRUE)
         ELSE self
    ELSE self

\* HrAppraisalInherit._onchange_employee_id_badge
_onchange_employee_id_badge(self) ==
    LET synced ==
            IF self.employee_id # NoRecord /\ barcode(self.employee_id) # ""
            THEN LET badge == {b \in Badges :
                                 badge_employee_id(b) = self.employee_id}
                 IN  IF badge # {}
                     THEN [self EXCEPT !.employee_badge_id =
                              CHOOSE b \in badge : TRUE]
                     ELSE [self EXCEPT !.employee_badge_id = NoRecord]
            ELSE IF self.employee_id = NoRecord
            THEN [self EXCEPT !.employee_badge_id = NoRecord]
            ELSE self
    IN  _auto_detect_templates(_clear_template_selections(synced, TRUE))

\* The handler without its warning branch.
_onchange_appraisal_template_type_no_warning(self, origin) ==
    LET flagged ==
            IF self.appraisal_template_type = "okr"
            THEN [self EXCEPT !.criteria_loaded = self.okr_criteria_loaded]
            ELSE IF self.appraisal_template_type = "ninebox"
            THEN [self EXCEPT !.criteria_loaded = self.ninebox_criteria_loaded]
            ELSE IF self.appraisal_template_type = "survey"
            THEN [self EXCEPT !.criteria_loaded = FALSE]
            ELSE self
    IN  [result |-> "ok",
         self |->
            IF self.appraisal_template_type # origin.appraisal_template_type
            THEN [flagged EXCEPT !.evaluation_type_ids = {}]
            ELSE flagged]

\* HrAppraisalInherit._onchange_appraisal_template_type; origin is
\* self._origin, the record as last saved.
_onchange_appraisal_template_type(self, origin) ==
    IF /\ origin.appraisal_template_type # NoRecord
       /\ origin.appraisal_template_type # self.appraisal_template_type
       /\ origin.criteria_loaded
    THEN [result |-> "warning", self |-> self]
    ELSE LET flagged ==
                 IF self.appraisal_template_type = "okr"
                 THEN [self EXCEPT !.criteria_loaded = self.okr_criteria_loaded]
                 ELSE IF self.appraisal_template_type = "ninebox"
                 THEN [self EXCEPT !.criteria_loaded =
                          self.ninebox_criteria_loaded]
                 ELSE IF self.appraisal_template_type = "survey"
                 THEN [self EXCEPT !.criteria_loaded = FALSE]
                 ELSE self
         IN  [result |-> "ok",
              self |->
                 IF self.appraisal_template_type # origin.appraisal_template_type
                 THEN [flagged EXCEPT !.evaluation_type_ids = {}]
                 ELSE flagged]

\* HrAppraisalInherit._onchange_okr_template
_onchange_okr_template(self) ==
    IF self.okr_template_id # NoRecord
    THEN [self EXCEPT !.appraisal_template_type = "okr"]
    ELSE self

\* HrAppraisalInherit._onchange_ninebox_template
_onchange_ninebox_template(self) ==
    IF self.ninebox_template_id # NoRecord
    THEN [self EXCEPT !.appraisal_template_type = "ninebox"]
    ELSE self

\* HrAppraisalInherit._onchange_survey_id
_onchange_survey_id(self) ==
    IF self.survey_id # NoRecord
    THEN [self EXCEPT !.appraisal_template_type = "survey"]
    ELSE self

\* Faulty variant of _onchange_evaluation_type_ids: clears the lines and the
\* flag of the current type but leaves criteria_loaded as it was.
_onchange_evaluation_type_ids_keeps_loaded(self, origin) ==
    IF self.criteria_loaded /\ origin.evaluation_type_ids # {}
    THEN IF self.appraisal_template_type = "okr"
         THEN [self EXCEPT !.okr_line_ids = <<>>,
                           !.okr_criteria_loaded = FALSE]
         ELSE IF self.appraisal_template_type = "ninebox"
         THEN [self EXCEPT !.ninebox_performance_line_ids = <<>>,
                           !.ninebox_potential_line_ids = <<>>,
                           !.ninebox_criteria_loaded = FALSE]
         ELSE self
    ELSE self

\* HrAppraisalInherit._onchange_evaluation_type_ids
_onchange_evaluation_type_ids(self, origin) ==
    IF self.criteria_loaded /\ origin.evaluation_type_ids # {}
    THEN LET cleared ==
                 IF self.appraisal_template_type = "okr"
                 THEN [self EXCEPT !.okr_line_ids = <<>>,
                                   !.okr_criteria_loaded = FALSE]
                 ELSE IF self.appraisal_template_type = "ninebox"
                 THEN [self EXCEPT !.ninebox_performance_line_ids = <<>>,
                                   !.ninebox_potential_line_ids = <<>>,
                                   !.ninebox_criteria_loaded = FALSE]
                 ELSE self
         IN  [cleared EXCEPT !.criteria_loaded = FALSE]
    ELSE self

\* ------------------------------------------ hr.appraisal: criteria loading

\* The template rows of one section (department, role or else common) whose
\* team is one of the employee's teams: the filtered(...) of the loaders.
FilterByTeams(rows, employee_teams) ==
    SelectSeq(rows, LAMBDA kr : kr.team_id \in employee_teams)

\* for eval_type in self.evaluation_type_ids: the selected codes in the
\* order of the recordset.
SelectedCodes(self) ==
    SelectSeq(EvalTypeOrder, LAMBDA c : c \in self.evaluation_type_ids)

\* Faulty variant of _load_okr_criteria: creates the new lines without
\* unlinking the existing ones first.
_load_okr_criteria_no_unlink(self) ==
    LET template == OkrTemplate(self.okr_template_id)
        employee_teams == _compute_employee_teams(self)
        key_results(code) ==
            IF code = "department"
            THEN FilterByTeams(template.department_key_result_ids, employee_teams)
            ELSE IF code = "role"
            THEN FilterByTeams(template.role_key_result_ids, employee_teams)
            ELSE FilterByTeams(template.common_key_result_ids, employee_teams)
        codes == SelectedCodes(self)
        tagged == Concat([i \in 1..Len(codes) |->
                     [j \in 1..Len(key_results(codes[i])) |->
                         <<codes[i], key_results(codes[i])[j]>>]])
        criteria_vals == [k \in 1..Len(tagged) |->
                             LineVals(k, tagged[k][1], tagged[k][2])]
        created == LineCreate("okr_line_ids", criteria_vals)
    IN  IF self.evaluation_type_ids = {}
        THEN [ok |-> FALSE, self |-> self]
        ELSE [ok |-> created.ok,
              self |-> [self EXCEPT
                  !.okr_line_ids = self.okr_line_ids \o created.lines]]

\* HrAppraisalInherit._load_okr_criteria: [ok, self], ok FALSE when it
\* raises (UserError, or the ValidationError of the line constraint).
_load_okr_criteria(self) ==
    LET template == OkrTemplate(self.okr_template_id)
        employee_teams == _compute_employee_teams(self)
        key_results(code) ==
            IF code = "department"
            THEN FilterByTeams(template.department_key_result_ids, employee_teams)
            ELSE IF code = "role"
            THEN FilterByTeams(template.role_key_result_ids, employee_teams)
            ELSE FilterByTeams(template.common_key_result_ids, employee_teams)
        codes == SelectedCodes(self)
        tagged == Concat([i \in 1..Len(codes) |->
                     [j \in 1..Len(key_results(codes[i])) |->
                         <<codes[i], key_results(codes[i])[j]>>]])
        criteria_vals == [k \in 1..Len(tagged) |->
                             LineVals(k, tagged[k][1], tagged[k][2])]
        created == LineCreate("okr_line_ids", criteria_vals)
    IN  IF self.evaluation_type_ids = {}
        THEN [ok |-> FALSE, self |-> self]
        ELSE [ok |-> created.ok,
              self |-> [self EXCEPT !.okr_line_ids = created.lines]]

\* The 9-box loader without its two unlink calls: the new lines are added
\* to the lines already there.
_load_ninebox_criteria_no_unlink(self) ==
    LET template == NineboxTemplate(self.ninebox_template_id)
        employee_teams == _compute_employee_teams(self)
        perf_lines(code) ==
            IF code = "department"
            THEN FilterByTeams(template.performance_dept_line_ids, employee_teams)
            ELSE IF code = "role"
            THEN FilterByTeams(template.performance_role_line_ids, employee_teams)
            ELSE FilterByTeams(template.performance_common_line_ids, employee_teams)
        pot_lines(code) ==
            IF code = "department"
            THEN FilterByTeams(template.potential_dept_line_ids, employee_teams)
            ELSE IF code = "role"
            THEN FilterByTeams(template.potential_role_line_ids, employee_teams)
            ELSE FilterByTeams(template.potential_common_line_ids, employee_teams)
        codes == SelectedCodes(self)
        perf_vals(code) == [k \in 1..Len(perf_lines(code)) |->
                               LineVals(k, code, perf_lines(code)[k])]
        pot_vals(code) == [k \in 1..Len(pot_lines(code)) |->
                              LineVals(k, code, pot_lines(code)[k])]
        perf_created == [i \in 1..Len(codes) |->
            LineCreate("ninebox_performance_line_ids", perf_vals(codes[i]))]
        pot_created == [i \in 1..Len(codes) |->
            LineCreate("ninebox_potential_line_ids", pot_vals(codes[i]))]
    IN  IF self.evaluation_type_ids = {}
        THEN [ok |-> FALSE, self |-> self]
        ELSE [ok |-> /\ \A i \in 1..Len(codes) : perf_created[i].ok
                     /\ \A i \in 1..Len(codes) : pot_created[i].ok,
              self |-> [self EXCEPT
                  !.ninebox_performance_line_ids =
                      self.ninebox_performance_line_ids \o Concat([i \in 1..Len(codes) |-> perf_created[i].lines]),
                  !.ninebox_potential_line_ids =
                      self.ninebox_potential_line_ids \o Concat([i \in 1..Len(codes) |-> pot_created[i].lines])]]

\* HrAppraisalInherit._load_ninebox_criteria: [ok, self].
_load_ninebox_criteria(self) ==
    LET template == NineboxTemplate(self.ninebox_template_id)
        employee_teams == _compute_employee_teams(self)
        perf_lines(code) ==
            IF code = "department"
            THEN FilterByTeams(template.performance_dept_line_ids, employee_teams)
            ELSE IF code = "role"
            THEN FilterByTeams(template.performance_role_line_ids, employee_teams)
            ELSE FilterByTeams(template.performance_common_line_ids, employee_teams)
        pot_lines(code) ==
            IF code = "department"
            THEN FilterByTeams(template.potential_dept_line_ids, employee_teams)
            ELSE IF code = "role"
            THEN FilterByTeams(template.potential_role_line_ids, employee_teams)
            ELSE FilterByTeams(template.potential_common_line_ids, employee_teams)
        codes == SelectedCodes(self)
        perf_vals(code) == [k \in 1..Len(perf_lines(code)) |->
                               LineVals(k, code, perf_lines(code)[k])]
        pot_vals(code) == [k \in 1..Len(pot_lines(code)) |->
                              LineVals(k, code, pot_lines(code)[k])]
        perf_created == [i \in 1..Len(codes) |->
            LineCreate("ninebox_performance_line_ids", perf_vals(codes[i]))]
        pot_created == [i \in 1..Len(codes) |->
            LineCreate("ninebox_potential_line_ids", pot_vals(codes[i]))]
    IN  IF self.evaluation_type_ids = {}
        THEN [ok |-> FALSE, self |-> self]
        ELSE [ok |-> /\ \A i \in 1..Len(codes) : perf_created[i].ok
                     /\ \A i \in 1..Len(codes) : pot_created[i].ok,
              self |-> [self EXCEPT
                  !.ninebox_performance_line_ids =
                      Concat([i \in 1..Len(codes) |-> perf_created[i].lines]),
                  !.ninebox_potential_line_ids =
                      Concat([i \in 1..Len(codes) |-> pot_created[i].lines])]]

\* Faulty variant of action_load_criteria: without the final else branch
\* that raises when no template of the current type is selected.
action_load_criteria_no_template_check(self) ==
    LET okr == _load_okr_criteria(self)
        ninebox == _load_ninebox_criteria(self)
        done(loaded) ==
            [result |-> "ok",
             self |-> [loaded EXCEPT
                 !.criteria_loaded = TRUE,
                 !.appraisal_group_id =
                     IF loaded.appraisal_group_id = NoRecord
                     THEN "uuid4" ELSE loaded.appraisal_group_id]]
        failed == [result |-> "error", self |-> self]
    IN  IF self.employee_id = NoRecord THEN failed
        ELSE IF self.evaluation_type_ids = {} THEN failed
        ELSE IF self.appraisal_template_type = "okr"
                /\ self.okr_template_id # NoRecord
        THEN IF okr.ok
             THEN done([okr.self EXCEPT !.okr_criteria_loaded = TRUE])
             ELSE failed
        ELSE IF self.appraisal_template_type = "ninebox"
                /\ self.ninebox_template_id # NoRecord
        THEN IF ninebox.ok
             THEN done([ninebox.self EXCEPT !.ninebox_criteria_loaded = TRUE])
             ELSE failed
        ELSE done(self)

\* HrAppraisalInherit.action_load_criteria: [result, self]; on "error" the
\* exception rolls the transaction back and self is the record as it was.
action_load_criteria(self) ==
    LET okr == _load_okr_criteria(self)
        ninebox == _load_ninebox_criteria(self)
        done(loaded) ==
            [result |-> "ok",
             self |-> [loaded EXCEPT
                 !.criteria_loaded = TRUE,
                 !.appraisal_group_id =
                     IF loaded.appraisal_group_id = NoRecord
                     THEN "uuid4" ELSE loaded.appraisal_group_id]]
        failed == [result |-> "error", self |-> self]
    IN  IF self.employee_id = NoRecord THEN failed
        ELSE IF self.evaluation_type_ids = {} THEN failed
        ELSE IF self.appraisal_template_type = "okr"
                /\ self.okr_template_id # NoRecord
        THEN IF okr.ok
             THEN done([okr.self EXCEPT !.okr_criteria_loaded = TRUE])
             ELSE failed
        ELSE IF self.appraisal_template_type = "ninebox"
                /\ self.ninebox_template_id # NoRecord
        THEN IF ninebox.ok
             THEN done([ninebox.self EXCEPT !.ninebox_criteria_loaded = TRUE])
             ELSE failed
        ELSE failed

\* ------------------------------------------------ hr.appraisal: spreadsheet

\* A cell's 'content' string.  str(x) of a float is its decimal text, which
\* float() parses back to x; a formula or any other text is not a number.
str(x) == [kind |-> "number", value |-> x]
FormulaContent == [kind |-> "formula", value |-> R(0)]

\* float(actual_str) inside try/except (ValueError, TypeError): 0.0 when
\* the content is no number.
ParseFloat(content) ==
    IF content.kind = "number" THEN content.value ELSE R(0)

\* Column G of one generated sheet, by row: the Actual cell of each line in
\* sorted('sequence') order from row 2, then =SUM(G2:G<last>) in the totals
\* row.  The other columns (A-F, H-J) are never read back and are left out.
SheetCells(lines) ==
    LET order == sorted(lines)
        total_row == Len(lines) + 2
    IN  [row \in 2..total_row |->
            IF row < total_row
            THEN str(Round2(lines[order[row - 1]].actual_value))
            ELSE FormulaContent]

\* HrAppraisalInherit._generate_okr_spreadsheet
_generate_okr_spreadsheet(self) ==
    [sheets |-> <<[id |-> "okr_sheet", name |-> "OKR Criteria",
                   cells |-> SheetCells(self.okr_line_ids)]>>]

\* HrAppraisalInherit._generate_ninebox_spreadsheet
_generate_ninebox_spreadsheet(self) ==
    [sheets |->
        (IF self.ninebox_performance_line_ids # <<>>
         THEN <<[id |-> "performance_sheet", name |-> "Performance",
                 cells |-> SheetCells(self.ninebox_performance_line_ids)]>>
         ELSE <<>>)
        \o
        (IF self.ninebox_potential_line_ids # <<>>
         THEN <<[id |-> "potential_sheet", name |-> "Potential",
                 cells |-> SheetCells(self.ninebox_potential_line_ids)]>>
         ELSE <<>>)]

\* spreadsheet_raw of a record with no spreadsheet.
NoData == [sheets |-> <<>>]

\* The generation that creates a spreadsheet record on every call.
action_generate_spreadsheet_always_creates(self) ==
    LET failed == [result |-> "error", self |-> self]
        stored(data) ==
            [result |-> "ok",
             self |-> [self EXCEPT
                 !.spreadsheet_id =
                     IF self.spreadsheet_id = "spreadsheet1"
                     THEN "spreadsheet2" ELSE "spreadsheet1",
                 !.spreadsheet_raw = data]]
    IN  IF ~self.criteria_loaded THEN failed
        ELSE IF self.appraisal_template_type = "okr"
        THEN stored(_generate_okr_spreadsheet(self))
        ELSE IF self.appraisal_template_type = "ninebox"
        THEN stored(_generate_ninebox_spreadsheet(self))
        ELSE failed

\* HrAppraisalInherit.action_generate_spreadsheet: [result, self].  The
\* field spreadsheet_raw of self stands for self.spreadsheet_id's data.
action_generate_spreadsheet(self) ==
    LET failed == [result |-> "error", self |-> self]
        stored(data) ==
            [result |-> "ok",
             self |-> [self EXCEPT
                 !.spreadsheet_id =
                     IF self.spreadsheet_id # NoRecord
                     THEN self.spreadsheet_id ELSE "spreadsheet1",
                 !.spreadsheet_raw = data]]
    IN  IF ~self.criteria_loaded THEN failed
        ELSE IF self.appraisal_template_type = "okr"
        THEN stored(_generate_okr_spreadsheet(self))
        ELSE IF self.appraisal_template_type = "ninebox"
        THEN stored(_generate_ninebox_spreadsheet(self))
        ELSE failed

\* HrAppraisalInherit._sync_criteria_to_spreadsheet
_sync_criteria_to_spreadsheet(self) ==
    IF self.spreadsheet_id = NoRecord \/ ~self.criteria_loaded THEN self
    ELSE IF self.appraisal_template_type = "okr"
    THEN [self EXCEPT !.spreadsheet_raw = _generate_okr_spreadsheet(self)]
    ELSE IF self.appraisal_template_type = "ninebox"
    THEN [self EXCEPT !.spreadsheet_raw = _generate_ninebox_spreadsheet(self)]
    ELSE self

\* Position of index i in the index list order.
PositionIn(order, i) == CHOOSE k \in 1..Len(order) : order[k] = i

\* The loop without its threshold: every line takes its parsed number.
SyncLinesFromCells_every_line(field, lines, cells) ==
    LET order == sorted(lines)
    IN  [i \in 1..Len(lines) |->
            LET row_idx == PositionIn(order, i) + 1
                actual_str == IF row_idx \in DOMAIN cells
                              THEN cells[row_idx] ELSE str(R(0))
                actual_val == ParseFloat(actual_str)
            IN  LineRecompute(field,
                    [lines[i] EXCEPT !.actual_value = actual_val])]

\* The loop that leaves a line alone when its cell is missing or holds no
\* number.
SyncLinesFromCells_skips_unparsed(field, lines, cells) ==
    LET order == sorted(lines)
    IN  [i \in 1..Len(lines) |->
            LET row_idx == PositionIn(order, i) + 1
            IN  IF /\ row_idx \in DOMAIN cells
                   /\ cells[row_idx].kind = "number"
                   /\ RatGT(RatAbs(RatSub(lines[i].actual_value,
                                          cells[row_idx].value)), Dec(1))
                THEN LineRecompute(field,
                         [lines[i] EXCEPT !.actual_value = cells[row_idx].value])
                ELSE lines[i]]

\* The loop of the _sync_*_from_spreadsheet methods over one sheet: each
\* line, at row 2 + its position in sorted('sequence') order, takes the
\* number parsed from its G cell ('0' when the cell is missing) when that
\* differs from its actual_value by more than 0.001; the write carries
\* skip_spreadsheet_sync.
SyncLinesFromCells(field, lines, cells) ==
    LET order == sorted(lines)
    IN  [i \in 1..Len(lines) |->
            LET row_idx == PositionIn(order, i) + 1
                actual_str == IF row_idx \in DOMAIN cells
                              THEN cells[row_idx] ELSE str(R(0))
                actual_val == ParseFloat(actual_str)
            IN  IF RatGT(RatAbs(RatSub(lines[i].actual_value, actual_val)),
                         Dec(1))
                THEN LineRecompute(field,
                         [lines[i] EXCEPT !.actual_value = actual_val])
                ELSE lines[i]]

\* The OKR parse whose writes do not carry skip_spreadsheet_sync: the
\* write of a line regenerates the spreadsheet.
_sync_okr_from_spreadsheet_without_skip(self, data) ==
    IF data.sheets = <<>> THEN self
    ELSE LET lines == SyncLinesFromCells("okr_line_ids", self.okr_line_ids,
                                         data.sheets[1].cells)
             written == [self EXCEPT !.okr_line_ids = lines]
         IN  IF lines # self.okr_line_ids
             THEN _sync_criteria_to_spreadsheet(written)
             ELSE written

\* HrAppraisalInherit._sync_okr_from_spreadsheet
_sync_okr_from_spreadsheet(self, data) ==
    IF data.sheets = <<>> THEN self
    ELSE [self EXCEPT !.okr_line_ids =
             SyncLinesFromCells("okr_line_ids", self.okr_line_ids,
                                data.sheets[1].cells)]

\* next((s for s in sheets if part in s.get('name', '')), None), as the
\* sequence of at most one sheet.
FirstSheetNamed(sheets, names) ==
    LET hits == SelectSeq(sheets, LAMBDA sh : sh.name \in names)
    IN  IF hits = <<>> THEN <<>> ELSE <<Head(hits)>>

\* HrAppraisalInherit._sync_ninebox_from_spreadsheet
_sync_ninebox_from_spreadsheet(self, data) ==
    LET perf_sheet == FirstSheetNamed(data.sheets, {"Performance"})
        pot_sheet == FirstSheetNamed(data.sheets, {"Potential"})
    IN  [self EXCEPT
            !.ninebox_performance_line_ids =
                IF perf_sheet # <<>>
                THEN SyncLinesFromCells("ninebox_performance_line_ids",
                         self.ninebox_performance_line_ids, perf_sheet[1].cells)
                ELSE self.ninebox_performance_line_ids,
            !.ninebox_potential_line_ids =
                IF pot_sheet # <<>>
                THEN SyncLinesFromCells("ninebox_potential_line_ids",
                         self.ninebox_potential_line_ids, pot_sheet[1].cells)
                ELSE self.ninebox_potential_line_ids]

\* HrAppraisalInherit._sync_spreadsheet_to_criteria: [result, self].
_sync_spreadsheet_to_criteria(self) ==
    IF self.spreadsheet_id = NoRecord \/ ~self.criteria_loaded
    THEN [result |-> "error", self |-> self]
    ELSE IF self.spreadsheet_raw.sheets = <<>>
    THEN [result |-> "error", self |-> self]
    ELSE IF self.appraisal_template_type = "okr"
    THEN [result |-> "ok",
          self |-> _sync_okr_from_spreadsheet(self, self.spreadsheet_raw)]
    ELSE IF self.appraisal_template_type = "ninebox"
    THEN [result |-> "ok",
          self |-> _sync_ninebox_from_spreadsheet(self, self.spreadsheet_raw)]
    ELSE [result |-> "ok", self |-> self]

\* The refresh with its two steps exchanged: regenerate, then pull.
action_refresh_spreadsheet_regenerate_first(self) ==
    LET pulled == _sync_spreadsheet_to_criteria(
                      _sync_criteria_to_spreadsheet(self))
    IN  IF self.spreadsheet_id = NoRecord \/ ~self.criteria_loaded
        THEN [result |-> "error", self |-> self]
        ELSE IF pulled.result = "error"
        THEN [result |-> "error", self |-> self]
        ELSE [result |-> "ok", self |-> pulled.self]

\* HrAppraisalInherit.action_refresh_spreadsheet: [result, self].
action_refresh_spreadsheet(self) ==
    LET pulled == _sync_spreadsheet_to_criteria(self)
    IN  IF self.spreadsheet_id = NoRecord \/ ~self.criteria_loaded
        THEN [result |-> "error", self |-> self]
        ELSE IF pulled.result = "error"
        THEN [result |-> "error", self |-> self]
        ELSE [result |-> "ok",
              self |-> _sync_criteria_to_spreadsheet(pulled.self)]

\* -------------------------------------------------- writes on the lines

\* Model.write({fname: value}) of the ORM on line i of a One2many field:
\* [ok, self], ok FALSE when a constraint on fname rejects the write.
LineWrite(self, field, i, fname, value) ==
    LET line == LineRecompute(field, [self[field][i] EXCEPT ![fname] = value])
    IN  [ok |-> ~(fname = "weightage" /\ LineConstraintFails(field, line)),
         self |-> [self EXCEPT ![field][i] = line]]

\* HrAppraisalOKRLine.write on line i of self.okr_line_ids, with the
\* context key skip_spreadsheet_sync as a parameter: [ok, self].
OKRLine_write(self, i, fname, value, skip_spreadsheet_sync) ==
    LET res == LineWrite(self, "okr_line_ids", i, fname, value)
    IN  IF ~res.ok THEN [ok |-> FALSE, self |-> self]
        ELSE IF fname = "actual_value" /\ ~skip_spreadsheet_sync
                /\ res.self.spreadsheet_id # NoRecord
                /\ res.self.criteria_loaded
        THEN [ok |-> TRUE, self |-> _sync_criteria_to_spreadsheet(res.self)]
        ELSE res

\* write on a line of any of the three models: the 9-box line models do not
\* override write.
write(self, field, i, fname, value) ==
    IF field = "okr_line_ids"
    THEN OKRLine_write(self, i, fname, value, FALSE)
    ELSE LET res == LineWrite(self, field, i, fname, value)
         IN  IF res.ok THEN res ELSE [ok |-> FALSE, self |-> self]

\* -------------------------- hr.employee.appraisal, appraisal.criteria.data

\* hr.employee department_id, oh.appraisal.team department_id and the
\* templates' department_id.  No employee has two teams in the own
\* department, so the row order of the team query does not matter.
employee_department_id(e) ==
    CASE e = "e1" -> "d1" [] e = "e2" -> "d2" [] e = "e3" -> "d2"
      [] e = "e4" -> "d1" [] e = "e5" -> "d2"

team_department_id(t) ==
    CASE t = "tA" -> "d1" [] t = "tB" -> "d2" [] t = "tC" -> "d2"
      [] t = "tD" -> "d2"

OkrTemplateDepartment(t) ==
    CASE t = "O1" -> "d1" [] t = "O2" -> "d2" [] t = "O3" -> "d2"

NineboxTemplateDepartment(t) ==
    CASE t = "N1" -> "d2" [] t = "N2" -> "d1"

\* The records in the order browse() and search() return them (by id).
TeamOrder == <<"tA", "tB", "tC", "tD">>
OkrTemplateOrder == <<"O1", "O2", "O3">>
NineboxTemplateOrder == <<"N1", "N2">>

\* HrEmployeeAppraisal._compute_team_and_templates, on a saved record.
_compute_team_and_templates(self) ==
    LET employee == self.employee_id
        none(team) == [self EXCEPT !.appraisal_team_id = team,
                                   !.template_type = NoRecord,
                                   !.okr_template_id = NoRecord,
                                   !.ninebox_template_id = NoRecord]
        team_ids == SelectSeq(TeamOrder, LAMBDA t : employee \in member_ids(t))
        dept_teams == SelectSeq(team_ids, LAMBDA t :
            team_department_id(t) = employee_department_id(employee))
        dept_team == Head(dept_teams)
        okr_template == SelectSeq(OkrTemplateOrder, LAMBDA t :
            /\ OkrTemplateDepartment(t) = employee_department_id(employee)
            /\ OkrTemplate(t).active
            /\ dept_team \in OkrTemplate(t).weightage_team_ids)
        ninebox_template == SelectSeq(NineboxTemplateOrder, LAMBDA t :
            /\ NineboxTemplateDepartment(t) = employee_department_id(employee)
            /\ NineboxTemplate(t).active
            /\ \/ dept_team \in NineboxTemplate(t).performance_weightage_team_ids
               \/ dept_team \in NineboxTemplate(t).potential_weightage_team_ids)
    IN  IF employee = NoRecord THEN none(NoRecord)
        ELSE IF team_ids = <<>> THEN none(NoRecord)
        ELSE IF dept_teams = <<>> THEN none(NoRecord)
        ELSE IF okr_template # <<>>
        THEN [self EXCEPT !.appraisal_team_id = dept_team,
                          !.template_type = "okr",
                          !.okr_template_id = Head(okr_template),
                          !.ninebox_template_id = NoRecord]
        ELSE IF ninebox_template # <<>>
        THEN [self EXCEPT !.appraisal_team_id = dept_team,
                          !.template_type = "ninebox",
                          !.ninebox_template_id = Head(ninebox_template),
                          !.okr_template_id = NoRecord]
        ELSE none(dept_team)

\* Faulty variant of AppraisalCriteriaData._compute_achievement: the ratio,
\* not multiplied by 100.
CriteriaData_compute_achievement_ratio(record) ==
    IF RatGT(record.target_value, R(0))
    THEN RatDiv(record.actual_value, record.target_value)
    ELSE R(0)

\* AppraisalCriteriaData._compute_achievement
CriteriaData_compute_achievement(record) ==
    IF RatGT(record.target_value, R(0))
    THEN RatMul(RatDiv(record.actual_value, record.target_value), R(100))
    ELSE R(0)

\* AppraisalCriteriaData._check_weightage: TRUE when it raises.
CriteriaData_check_weightage(record) ==
    RatLT(record.weightage, R(0)) \/ RatGT(record.weightage, R(100))

\* The stored computed field of a criteria record, recomputed.
CriteriaDataRecompute(record) ==
    [record EXCEPT !.achievement_percentage =
        CriteriaData_compute_achievement(record)]

\* The vals dictionary _load_okr_to_spreadsheet and
\* _load_ninebox_to_spreadsheet build for one template row.
CriteriaVals(sequence, row, type_prefix) ==
    [sequence |-> sequence,
     objective_breakdown |-> row.objective_breakdown,
     target_value |-> row.target_value,
     actual_value |-> row.actual_value,
     weightage |-> row.distributed_weightage,
     team_name |-> row.team_id,
     criteria_type |-> type_prefix,
     achievement_percentage |-> R(0)]

\* appraisal.criteria.data create(vals_list): [ok, lines].
CriteriaDataCreate(vals_list) ==
    LET made == [i \in 1..Len(vals_list) |-> CriteriaDataRecompute(vals_list[i])]
    IN  [ok |-> \A i \in 1..Len(made) : ~CriteriaData_check_weightage(made[i]),
         lines |-> made]

\* filtered(lambda kr: kr.team_id == team)
FilterByTeam(rows, team) == SelectSeq(rows, LAMBDA kr : kr.team_id = team)

\* HrEmployeeAppraisal._load_okr_to_spreadsheet: the criteria_list.
_load_okr_to_spreadsheet(self) ==
    LET template == OkrTemplate(self.okr_template_id)
        team == self.appraisal_team_id
        key_results ==
            IF self.evaluation_type = "department"
            THEN FilterByTeam(template.department_key_result_ids, team)
            ELSE IF self.evaluation_type = "role"
            THEN FilterByTeam(template.role_key_result_ids, team)
            ELSE FilterByTeam(template.common_key_result_ids, team)
        type_prefix ==
            IF self.evaluation_type = "department" THEN "okr_dept"
            ELSE IF self.evaluation_type = "role" THEN "okr_role"
            ELSE "okr_common"
    IN  IF self.okr_template_id = NoRecord \/ self.appraisal_team_id = NoRecord
        THEN <<>>
        ELSE [k \in 1..Len(key_results) |->
                 CriteriaVals(k, key_results[k], type_prefix)]

\* HrEmployeeAppraisal._load_ninebox_to_spreadsheet: the criteria_list.
_load_ninebox_to_spreadsheet(self) ==
    LET template == NineboxTemplate(self.ninebox_template_id)
        team == self.appraisal_team_id
        perf_lines ==
            IF self.evaluation_type = "department"
            THEN FilterByTeam(template.performance_dept_line_ids, team)
            ELSE IF self.evaluation_type = "role"
            THEN FilterByTeam(template.performance_role_line_ids, team)
            ELSE FilterByTeam(template.performance_common_line_ids, team)
        type_prefix ==
            IF self.evaluation_type = "department" THEN "ninebox_perf_dept"
            ELSE IF self.evaluation_type = "role" THEN "ninebox_perf_role"
            ELSE "ninebox_perf_common"
        pot_lines ==
            IF self.evaluation_type = "department"
            THEN FilterByTeam(template.potential_dept_line_ids, team)
            ELSE IF self.evaluation_type = "role"
            THEN FilterByTeam(template.potential_role_line_ids, team)
            ELSE FilterByTeam(template.potential_common_line_ids, team)
        pot_type_prefix ==
            IF self.evaluation_type = "department" THEN "ninebox_pot_dept"
            ELSE IF self.evaluation_type = "role" THEN "ninebox_pot_role"
            ELSE "ninebox_pot_common"
    IN  IF self.ninebox_template_id = NoRecord
           \/ self.appraisal_team_id = NoRecord
        THEN <<>>
        ELSE [k \in 1..Len(perf_lines) |->
                 CriteriaVals(k, perf_lines[k], type_prefix)]
             \o [k \in 1..Len(pot_lines) |->
                 CriteriaVals(Len(perf_lines) + k, pot_lines[k],
                              pot_type_prefix)]

\* Column F (Actual Value) of one sheet generated from criteria records:
\* the records in sorted('sequence') order from row 2, then the rounded sum
\* in the totals row.
CriteriaSheetCells(records) ==
    LET order == sorted(records)
        total_row == Len(records) + 2
    IN  [row \in 2..total_row |->
            IF row < total_row
            THEN str(Round2(records[order[row - 1]].actual_value))
            ELSE str(Round2(RatSum([i \in 1..Len(records) |->
                                       records[i].actual_value])))]

PerformanceTypes ==
    {"ninebox_perf_dept", "ninebox_perf_role", "ninebox_perf_common"}
PotentialTypes ==
    {"ninebox_pot_dept", "ninebox_pot_role", "ninebox_pot_common"}

\* AppraisalCriteriaData.generate_spreadsheet_from_criteria
generate_spreadsheet_from_criteria(criteria_records, appraisal) ==
    LET perf_criteria == SelectSeq(criteria_records,
            LAMBDA c : c.criteria_type \in PerformanceTypes)
        pot_criteria == SelectSeq(criteria_records,
            LAMBDA c : c.criteria_type \in PotentialTypes)
    IN  IF appraisal.template_type = "ninebox"
        THEN [sheets |->
                (IF perf_criteria # <<>>
                 THEN <<[id |-> "performance_sheet", name |-> "Performance",
                         cells |-> CriteriaSheetCells(perf_criteria)]>>
                 ELSE <<>>)
                \o
                (IF pot_criteria # <<>>
                 THEN <<[id |-> "potential_sheet", name |-> "Potential",
                         cells |-> CriteriaSheetCells(pot_criteria)]>>
                 ELSE <<>>)]
        ELSE [sheets |-> <<[id |-> "sheet1", name |-> "OKR Criteria",
                            cells |-> CriteriaSheetCells(criteria_records)]>>]

\* Ids of spreadsheet.spreadsheet records, in the order of the database
\* sequence.
SpreadsheetIds ==
    <<"spreadsheet1", "spreadsheet2", "spreadsheet3", "spreadsheet4",
      "spreadsheet5", "spreadsheet6", "spreadsheet7", "spreadsheet8">>

\* The id create() gives a record: the one after every id of existing.
NextSpreadsheetId(existing) ==
    LET used == {k \in 1..Len(SpreadsheetIds) : SpreadsheetIds[k] \in existing}
    IN  SpreadsheetIds[1 + Cardinality({k \in 1..Len(SpreadsheetIds) :
                               \E u \in used : k <= u})]

\* The load as it would end if the exception left the unlinks in place:
\* without criteria records and spreadsheet when no criteria are found.
action_load_to_spreadsheet_no_rollback(self) ==
    LET failed == [result |-> "error", self |-> self, unlinked |-> {}]
        old == {self.spreadsheet_document_id} \ {NoRecord}
        criteria_list ==
            IF self.template_type = "okr" THEN _load_okr_to_spreadsheet(self)
            ELSE IF self.template_type = "ninebox"
            THEN _load_ninebox_to_spreadsheet(self)
            ELSE <<>>
        created_criteria == CriteriaDataCreate(criteria_list)
    IN  IF self.evaluation_type = NoRecord \/ self.template_type = NoRecord
        THEN failed
        ELSE IF criteria_list = <<>> \/ ~created_criteria.ok
        THEN [result |-> "error",
              self |-> [self EXCEPT !.criteria_data_ids = <<>>,
                                    !.spreadsheet_document_id = NoRecord,
                                    !.spreadsheet_data = NoData],
              unlinked |-> old]
        ELSE [result |-> "ok",
              self |-> [self EXCEPT
                  !.criteria_data_ids = created_criteria.lines,
                  !.criteria_loaded = TRUE,
                  !.spreadsheet_document_id = NextSpreadsheetId(old),
                  !.spreadsheet_data =
                      generate_spreadsheet_from_criteria(
                          created_criteria.lines, self)],
              unlinked |-> old]

\* HrEmployeeAppraisal.action_load_to_spreadsheet: [result, self, unlinked],
\* unlinked the spreadsheet records it has deleted; on "error" the exception
\* rolls the transaction back, unlinks included.  The field
\* spreadsheet_data of self stands for the data of the spreadsheet record
\* spreadsheet_document_id.
action_load_to_spreadsheet(self) ==
    LET failed == [result |-> "error", self |-> self, unlinked |-> {}]
        old == {self.spreadsheet_document_id} \ {NoRecord}
        criteria_list ==
            IF self.template_type = "okr" THEN _load_okr_to_spreadsheet(self)
            ELSE IF self.template_type = "ninebox"
            THEN _load_ninebox_to_spreadsheet(self)
            ELSE <<>>
        created_criteria == CriteriaDataCreate(criteria_list)
    IN  IF self.evaluation_type = NoRecord \/ self.template_type = NoRecord
        THEN failed
        ELSE IF criteria_list = <<>> THEN failed
        ELSE IF ~created_criteria.ok THEN failed
        ELSE [result |-> "ok",
              self |-> [self EXCEPT
                  !.criteria_data_ids = created_criteria.lines,
                  !.criteria_loaded = TRUE,
                  !.spreadsheet_document_id = NextSpreadsheetId(old),
                  !.spreadsheet_data =
                      generate_spreadsheet_from_criteria(
                          created_criteria.lines, self)],
              unlinked |-> old]

\* appraisal.criteria.data write({fname: value}) on record i of
\* criteria_data_ids: [ok, self]; the constraint rejects the write.
CriteriaData_write(self, i, fname, value) ==
    LET written == CriteriaDataRecompute(
                       [self.criteria_data_ids[i] EXCEPT ![fname] = value])
    IN  IF fname = "weightage" /\ CriteriaData_check_weightage(written)
        THEN [ok |-> FALSE, self |-> self]
        ELSE [ok |-> TRUE,
              self |-> [self EXCEPT !.criteria_data_ids[i] = written]]

\* ------------------------------------------------------ the state machine

\* User input on the lines: actual values (one with three decimals),
\* weightages (one out of range) and a target.
ActualInputs == {Dec(1236), R(3)}
WeightageInputs == {R(20), R(150)}
TargetInputs == {R(0)}
InputsOf(fname) ==
    CASE fname = "actual_value" -> ActualInputs
      [] fname = "weightage" -> WeightageInputs
      [] fname = "target_value" -> TargetInputs

\* The values a user types into a criteria record of the list view.
CriteriaInputsOf(fname) ==
    CASE fname = "actual_value" -> ActualInputs \cup {R(0)}
      [] fname = "weightage" -> WeightageInputs \cup {R(0 - 5)}
      [] fname = "target_value" -> TargetInputs \cup {R(4), R(0 - 2)}

\* Line edits followed in one behaviour.
MaxWrites == 2
\* User interactions (field changes, saves, buttons, line edits) followed in
\* one behaviour.
MaxSteps == 6

VARIABLES
    appraisal,  \* the hr.appraisal record in the form (self)
    origin,     \* self._origin: the fields the handlers read of the saved record
    op,         \* the handler that ran last, how it ended and, for a button,
                \* the spreadsheet data it found
    writes,     \* line edits so far
    steps,      \* user interactions so far
    model,      \* the model of the record the user has open
    spreadsheets,  \* the spreadsheet.spreadsheet records that exist
    employee_appraisal  \* that record, when it is an hr.employee.appraisal

vars == <<appraisal, origin, op, writes, steps, model, spreadsheets,
          employee_appraisal>>

TemplateTypes == {"survey", "okr", "ninebox"}

\* The record as the form saves it: what _origin shows afterwards.
Saved(self) ==
    [appraisal_template_type |-> self.appraisal_template_type,
     criteria_loaded |-> self.criteria_loaded,
     evaluation_type_ids |-> self.evaluation_type_ids]

\* A new hr.appraisal: the field defaults.
NewAppraisal ==
    Recompute(
        [employee_id |-> NoRecord, employee_badge_id |-> NoRecord,
         appraisal_template_type |-> "survey",
         appraisal_group_id |-> NoRecord,
         survey_id |-> NoRecord, evaluation_type_ids |-> {},
         okr_template_id |-> NoRecord, ninebox_template_id |-> NoRecord,
         okr_line_ids |-> <<>>,
         ninebox_performance_line_ids |-> <<>>,
         ninebox_potential_line_ids |-> <<>>,
         criteria_loaded |-> FALSE, okr_criteria_loaded |-> FALSE,
         ninebox_criteria_loaded |-> FALSE,
         total_okr_score |-> R(0), total_performance_score |-> R(0),
         total_potential_score |-> R(0), final_score |-> R(0),
         performance_rating |-> "unsatisfactory",
         spreadsheet_id |-> NoRecord, spreadsheet_raw |-> NoData])

\* A new hr.employee.appraisal: the field defaults.
NewEmployeeAppraisal ==
    [employee_id |-> NoRecord, evaluation_type |-> NoRecord,
     appraisal_team_id |-> NoRecord, template_type |-> NoRecord,
     okr_template_id |-> NoRecord, ninebox_template_id |-> NoRecord,
     criteria_data_ids |-> <<>>, criteria_loaded |-> FALSE,
     spreadsheet_document_id |-> NoRecord, spreadsheet_data |-> NoData]

\* A new record: the field defaults; _origin is empty.
Init ==
    /\ appraisal = NewAppraisal
    /\ origin = [appraisal_template_type |-> NoRecord,
                 criteria_loaded |-> FALSE, evaluation_type_ids |-> {}]
    /\ op = [name |-> "new", result |-> "ok"]
    /\ writes = 0
    /\ steps = 0
    /\ model \in {"hr.appraisal", "hr.employee.appraisal"}
    /\ spreadsheets = {}
    /\ employee_appraisal = NewEmployeeAppraisal

\* One more user interaction, while the bound allows it.
Tick == steps < MaxSteps /\ steps' = steps + 1

\* One more interaction with the hr.appraisal form.
OnAppraisal ==
    /\ model = "hr.appraisal"
    /\ Tick
    /\ UNCHANGED <<model, employee_appraisal>>

\* One more interaction with the hr.employee.appraisal form.
OnEmployeeAppraisal ==
    /\ model = "hr.employee.appraisal"
    /\ Tick
    /\ UNCHANGED <<model, appraisal, origin>>

\* An onchange handler ran in the form: nothing is saved.
Onchange(name, result, self) ==
    /\ OnAppraisal
    /\ appraisal' = Recompute(self)
    /\ op' = [name |-> name, result |-> result]
    /\ UNCHANGED <<origin, writes, spreadsheets>>

\* A button ran: the form saves the record first, the method runs in one
\* transaction, and an exception rolls it back.  op keeps the spreadsheet
\* data the method found; a spreadsheet record the method created is the
\* one it has linked.
Button(name, res) ==
    /\ OnAppraisal
    /\ appraisal' = IF res.result = "error" THEN appraisal
                    ELSE Recompute(res.self)
    /\ origin' = Saved(appraisal')
    /\ op' = [name |-> name, result |-> res.result,
              spreadsheet_raw |-> appraisal.spreadsheet_raw]
    /\ spreadsheets' = spreadsheets \cup ({appraisal'.spreadsheet_id} \ {NoRecord})
    /\ UNCHANGED writes

\* The user picks an employee (or clears the field).
OnchangeEmployeeId ==
    \E e \in (Employees \cup {NoRecord}) \ {appraisal.employee_id} :
        Onchange("_onchange_employee_id_badge", "ok",
                 _onchange_employee_id_badge(
                     [appraisal EXCEPT !.employee_id = e]))

\* The user picks a badge (or clears the field).
OnchangeEmployeeBadgeId ==
    \E b \in (Badges \cup {NoRecord}) \ {appraisal.employee_badge_id} :
        Onchange("_onchange_employee_badge_id", "ok",
                 _onchange_employee_badge_id(
                     [appraisal EXCEPT !.employee_badge_id = b]))

\* The user picks another appraisal type.
OnchangeAppraisalTemplateType ==
    \E t \in TemplateTypes \ {appraisal.appraisal_template_type} :
        LET res == _onchange_appraisal_template_type(
                       [appraisal EXCEPT !.appraisal_template_type = t], origin)
        IN  Onchange("_onchange_appraisal_template_type", res.result, res.self)

\* The user picks an OKR template among the available ones (the field's
\* domain), or clears the field.
OnchangeOkrTemplate ==
    \E t \in (_compute_available_templates(appraisal).available_okr_template_ids
                \cup {NoRecord}) \ {appraisal.okr_template_id} :
        Onchange("_onchange_okr_template", "ok",
                 _onchange_okr_template(
                     [appraisal EXCEPT !.okr_template_id = t]))

\* The user picks a 9-box template among the available ones, or clears it.
OnchangeNineboxTemplate ==
    \E t \in (_compute_available_templates(appraisal).available_ninebox_template_ids
                \cup {NoRecord}) \ {appraisal.ninebox_template_id} :
        Onchange("_onchange_ninebox_template", "ok",
                 _onchange_ninebox_template(
                     [appraisal EXCEPT !.ninebox_template_id = t]))

\* The user picks a survey, or clears it.
OnchangeSurveyId ==
    \E sv \in (Surveys \cup {NoRecord}) \ {appraisal.survey_id} :
        Onchange("_onchange_survey_id", "ok",
                 _onchange_survey_id([appraisal EXCEPT !.survey_id = sv]))

\* The user changes the selected evaluation types.
OnchangeEvaluationTypeIds ==
    \E types \in (SUBSET EvalTypes) \ {appraisal.evaluation_type_ids} :
        Onchange("_onchange_evaluation_type_ids", "ok",
                 _onchange_evaluation_type_ids(
                     [appraisal EXCEPT !.evaluation_type_ids = types], origin))

\* The user saves the form.
Save ==
    /\ OnAppraisal
    /\ origin # Saved(appraisal)
    /\ origin' = Saved(appraisal)
    /\ op' = [name |-> "save", result |-> "ok"]
    /\ UNCHANGED <<appraisal, writes, spreadsheets>>

\* Button "Load Criteria".
ActionLoadCriteria ==
    Button("action_load_criteria", action_load_criteria(appraisal))

\* Button "Generate Spreadsheet".
ActionGenerateSpreadsheet ==
    Button("action_generate_spreadsheet", action_generate_spreadsheet(appraisal))

\* Button "Refresh".
ActionRefreshSpreadsheet ==
    Button("action_refresh_spreadsheet", action_refresh_spreadsheet(appraisal))

\* The user edits one field of one criteria line and the line is written.
WriteLine ==
    /\ OnAppraisal
    /\ writes < MaxWrites
    /\ \E field \in LineFields :
       \E i \in 1..Len(appraisal[field]) :
       \E fname \in {"actual_value", "weightage", "target_value"} :
       \E value \in InputsOf(fname) \ {appraisal[field][i][fname]} :
          LET res == write(appraisal, field, i, fname, value)
          IN  /\ appraisal' = Recompute(res.self)
              /\ op' = [name |-> "write",
                        result |-> IF res.ok THEN "ok" ELSE "error"]
    /\ writes' = writes + 1
    /\ UNCHANGED <<origin, spreadsheets>>

\* What a user leaves in an Actual cell of the spreadsheet: a number far
\* from every loaded value, numbers within 0.001 of the loaded values 1 and
\* 0, a text and a formula.
TextContent == [kind |-> "text", value |-> R(0)]
CellInputs ==
    {str(R(7)), str(Rat(10005, 10000)), str(Rat(1, 2000)),
     TextContent, FormulaContent}

\* Sheet number k of data with the G cell of one row replaced.
SetCell(data, k, row, content) ==
    [data EXCEPT !.sheets[k].cells[row] = content]

\* Sheet number k of data with the G cell of one row removed.
ClearCell(data, k, row) ==
    [data EXCEPT !.sheets[k].cells =
        [r \in (DOMAIN data.sheets[k].cells) \ {row} |->
            data.sheets[k].cells[r]]]

\* The user edits or clears one cell of column G in the spreadsheet linked
\* to the appraisal: only the spreadsheet's data changes.
EditCell ==
    /\ OnAppraisal
    /\ appraisal.spreadsheet_id # NoRecord
    /\ \E k \in 1..Len(appraisal.spreadsheet_raw.sheets) :
       \E row \in DOMAIN appraisal.spreadsheet_raw.sheets[k].cells :
          \/ \E content \in CellInputs
                    \ {appraisal.spreadsheet_raw.sheets[k].cells[row]} :
                appraisal' = [appraisal EXCEPT !.spreadsheet_raw =
                                 SetCell(@, k, row, content)]
          \/ appraisal' = [appraisal EXCEPT !.spreadsheet_raw =
                               ClearCell(@, k, row)]
    /\ op' = [name |-> "edit_cell", result |-> "ok"]
    /\ UNCHANGED <<origin, writes, spreadsheets>>

\* The user picks the employee of an hr.employee.appraisal and saves: the
\* stored computed fields follow.
WriteEmployeeId ==
    /\ OnEmployeeAppraisal
    /\ \E e \in Employees \ {employee_appraisal.employee_id} :
          employee_appraisal' = _compute_team_and_templates(
              [employee_appraisal EXCEPT !.employee_id = e])
    /\ op' = [name |-> "write_employee_id", result |-> "ok"]
    /\ UNCHANGED <<writes, spreadsheets>>

\* The user picks the evaluation type (a required field) and saves.
WriteEvaluationType ==
    /\ OnEmployeeAppraisal
    /\ employee_appraisal.employee_id # NoRecord
    /\ \E t \in EvalTypes \ {employee_appraisal.evaluation_type} :
          employee_appraisal' = [employee_appraisal EXCEPT !.evaluation_type = t]
    /\ op' = [name |-> "write_evaluation_type", result |-> "ok"]
    /\ UNCHANGED <<writes, spreadsheets>>

\* Button "Load to Spreadsheet", on a record the form could save: its
\* required fields employee_id and evaluation_type are set.
ActionLoadToSpreadsheet ==
    /\ OnEmployeeAppraisal
    /\ employee_appraisal.employee_id # NoRecord
    /\ employee_appraisal.evaluation_type # NoRecord
    /\ LET res == action_load_to_spreadsheet(employee_appraisal)
       IN  /\ employee_appraisal' = res.self
           /\ op' = [name |-> "action_load_to_spreadsheet",
                     result |-> res.result]
           /\ spreadsheets' =
                  (spreadsheets \ res.unlinked)
                      \cup ({res.self.spreadsheet_document_id} \ {NoRecord})
    /\ UNCHANGED writes

\* The user edits one field of one criteria record in the list view.
WriteCriteriaData ==
    /\ OnEmployeeAppraisal
    /\ writes < MaxWrites
    /\ \E i \in 1..Len(employee_appraisal.criteria_data_ids) :
       \E fname \in {"actual_value", "weightage", "target_value"} :
       \E value \in CriteriaInputsOf(fname)
                       \ {employee_appraisal.criteria_data_ids[i][fname]} :
          LET res == CriteriaData_write(employee_appraisal, i, fname, value)
          IN  /\ employee_appraisal' = res.self
              /\ op' = [name |-> "criteria_data_write",
                        result |-> IF res.ok THEN "ok" ELSE "error"]
    /\ writes' = writes + 1
    /\ UNCHANGED spreadsheets

Next ==
    \/ OnchangeEmployeeId
    \/ OnchangeEmployeeBadgeId
    \/ OnchangeAppraisalTemplateType
    \/ OnchangeOkrTemplate
    \/ OnchangeNineboxTemplate
    \/ OnchangeSurveyId
    \/ OnchangeEvaluationTypeIds
    \/ Save
    \/ ActionLoadCriteria
    \/ ActionGenerateSpreadsheet
    \/ ActionRefreshSpreadsheet
    \/ WriteLine
    \/ EditCell
    \/ WriteEmployeeId
    \/ WriteEvaluationType
    \/ ActionLoadToSpreadsheet
    \/ WriteCriteriaData

Spec == Init /\ [][Next]_vars

\* ------------------------------------- the rating as a function of a score

\* The scores tried: the multiples of 1 / ScoreSteps from -1 to MaxScore.
MaxScore == 110
ScoreSteps == 4
Scores == {Rat(k, ScoreSteps) : k \in (0 - ScoreSteps)..(MaxScore * ScoreSteps)}

\* performance_rating selection, worst first.
RatingOrder == <<"unsatisfactory", "needs_improvement", "meets", "exceeds",
                 "outstanding">>
Ratings == Range(RatingOrder)

\* An hr.appraisal whose final_score was just assigned: performance_rating
\* still holds any earlier value.
RatingInit ==
    /\ \E s \in Scores, r \in Ratings, t \in TemplateTypes :
          appraisal = [NewAppraisal EXCEPT !.final_score = s,
                                           !.performance_rating = r,
                                           !.appraisal_template_type = t]
    /\ origin = [appraisal_template_type |-> NoRecord,
                 criteria_loaded |-> FALSE, evaluation_type_ids |-> {}]
    /\ op = [name |-> "new", result |-> "ok"]
    /\ writes = 0
    /\ steps = 0
    /\ model = "hr.appraisal"
    /\ spreadsheets = {}
    /\ employee_appraisal = NewEmployeeAppraisal

\* The ORM recomputes performance_rating after final_score changed.
ComputePerformanceRating ==
    /\ op.name = "new"
    /\ appraisal' = _compute_performance_rating(appraisal)
    /\ op' = [name |-> "_compute_performance_rating", result |-> "ok"]
    /\ UNCHANGED <<origin, writes, steps, model, spreadsheets,
                   employee_appraisal>>

RatingNext == ComputePerformanceRating

RatingSpec == RatingInit /\ [][RatingNext]_vars

\* ================================================================ claims

\* The criteria lines of the record, of all three kinds.
AllLines(self) ==
    Range(self.okr_line_ids) \cup Range(self.ninebox_performance_line_ids)
        \cup Range(self.ninebox_potential_line_ids)

NoCriteria(self) ==
    /\ self.okr_line_ids = <<>>
    /\ self.ninebox_performance_line_ids = <<>>
    /\ self.ninebox_potential_line_ids = <<>>
    /\ ~self.criteria_loaded
    /\ ~self.okr_criteria_loaded
    /\ ~self.ninebox_criteria_loaded

EmployeeChanged(name, self) ==
    \/ name = "_onchange_employee_id_badge"
    \/ name = "_onchange_employee_badge_id" /\ self.employee_badge_id # NoRecord

OkrObjectives(t) ==
    {r.objective_breakdown :
        r \in Range(OkrTemplate(t).department_key_result_ids)
            \cup Range(OkrTemplate(t).role_key_result_ids)
            \cup Range(OkrTemplate(t).common_key_result_ids)}

NineboxObjectives(t) ==
    {r.objective_breakdown :
        r \in Range(NineboxTemplate(t).performance_dept_line_ids)
            \cup Range(NineboxTemplate(t).performance_role_line_ids)
            \cup Range(NineboxTemplate(t).performance_common_line_ids)
            \cup Range(NineboxTemplate(t).potential_dept_line_ids)
            \cup Range(NineboxTemplate(t).potential_role_line_ids)
            \cup Range(NineboxTemplate(t).potential_common_line_ids)}

\* C2: when okr_template_id or ninebox_template_id of an appraisal with
\* loaded criteria is changed to a different template, no line copied from
\* the previous template remains on the appraisal.
C2_TemplateChangeDeletesLines ==
    [][/\ (/\ op'.name = "_onchange_okr_template"
           /\ appraisal.okr_criteria_loaded
           /\ appraisal.okr_template_id # NoRecord
           /\ appraisal'.okr_template_id
                  \notin {NoRecord, appraisal.okr_template_id})
          => \A l \in Range(appraisal'.okr_line_ids) :
                l.objective_breakdown
                    \notin OkrObjectives(appraisal.okr_template_id)
       /\ (/\ op'.name = "_onchange_ninebox_template"
           /\ appraisal.ninebox_criteria_loaded
           /\ appraisal.ninebox_template_id # NoRecord
           /\ appraisal'.ninebox_template_id
                  \notin {NoRecord, appraisal.ninebox_template_id})
          => \A l \in Range(appraisal'.ninebox_performance_line_ids)
                        \cup Range(appraisal'.ninebox_potential_line_ids) :
                l.objective_breakdown
                    \notin NineboxObjectives(appraisal.ninebox_template_id)]_vars

\* C3: every stored criteria line of every kind (OKR, 9-box performance,
\* 9-box potential, appraisal.criteria.data) has 0 <= weightage <= 100.
C3_WeightageInRange ==
    \A l \in AllLines(appraisal) \cup Range(employee_appraisal.criteria_data_ids) :
        RatGE(l.weightage, R(0)) /\ RatGE(R(100), l.weightage)

\* The actual_value of every line, by field and position.
Actuals(self) ==
    [f \in LineFields |-> [i \in 1..Len(self[f]) |-> self[f][i].actual_value]]

\* C4: generating the spreadsheet from the lines and parsing it back, no
\* Actual cell modified, leaves every line's actual_value as it was.
C4_SpreadsheetRoundTrip ==
    LET generated == action_generate_spreadsheet(appraisal)
        parsed == _sync_spreadsheet_to_criteria(generated.self)
    IN  (generated.result = "ok" /\ parsed.result = "ok")
        => Actuals(parsed.self) = Actuals(appraisal)

\* What action_load_criteria must leave alone when it is rejected.
LoadState(self) ==
    <<self.okr_line_ids, self.ninebox_performance_line_ids,
      self.ninebox_potential_line_ids, self.criteria_loaded,
      self.okr_criteria_loaded, self.ninebox_criteria_loaded,
      self.appraisal_group_id>>

\* No template of the current appraisal_template_type is selected.
NoTemplateOfType(self) ==
    ~ \/ self.appraisal_template_type = "okr"
         /\ self.okr_template_id # NoRecord
      \/ self.appraisal_template_type = "ninebox"
         /\ self.ninebox_template_id # NoRecord

\* C5: action_load_criteria is rejected when the appraisal has no employee,
\* no evaluation type, or no template of the current type (type survey
\* included); when it is rejected the lines, the three loaded flags and
\* appraisal_group_id are what they were before the call.
C5_LoadRejectedLeavesRecord ==
    [][op'.name = "action_load_criteria"
       => /\ (\/ appraisal.employee_id = NoRecord
              \/ appraisal.evaluation_type_ids = {}
              \/ NoTemplateOfType(appraisal))
             => op'.result = "error"
          /\ op'.result = "error"
             => LoadState(appraisal') = LoadState(appraisal)]_vars

\* C5 witness: a load rejected for the type survey on a record that has
\* loaded OKR lines, an employee and evaluation types.
C5_Witness ==
    /\ op.name = "action_load_criteria"
    /\ op.result = "error"
    /\ appraisal.appraisal_template_type = "survey"
    /\ appraisal.evaluation_type_ids # {}
    /\ appraisal.okr_line_ids # <<>>
    /\ appraisal.okr_criteria_loaded

\* The teams that have the employee as a member.
TeamsOf(e) == {t \in Teams : e \in member_ids(t)}

\* The rows of the sections (a function from evaluation type code to the
\* rows of that section) that match the selected codes and the employee's
\* teams, each with its code.
MatchingRows(sections, codes, e) ==
    UNION {{<<c, r>> : r \in {x \in Range(sections[c]) :
                                 x.team_id \in TeamsOf(e)}} : c \in codes}

IsCopyOf(line, m) ==
    /\ line.line_type = m[1]
    /\ line.objective_breakdown = m[2].objective_breakdown
    /\ line.target_value = m[2].target_value
    /\ line.weightage = m[2].distributed_weightage
    /\ line.team_id = m[2].team_id

\* lines holds one copy of each matching row and nothing else.
ExactlyOneCopyOfEach(lines, matching) ==
    /\ Len(lines) = Cardinality(matching)
    /\ \A m \in matching :
          Cardinality({i \in 1..Len(lines) : IsCopyOf(lines[i], m)}) = 1

OkrSections(t) ==
    [c \in EvalTypes |->
        CASE c = "department" -> OkrTemplate(t).department_key_result_ids
          [] c = "role" -> OkrTemplate(t).role_key_result_ids
          [] c = "common" -> OkrTemplate(t).common_key_result_ids]

PerformanceSections(t) ==
    [c \in EvalTypes |->
        CASE c = "department" -> NineboxTemplate(t).performance_dept_line_ids
          [] c = "role" -> NineboxTemplate(t).performance_role_line_ids
          [] c = "common" -> NineboxTemplate(t).performance_common_line_ids]

PotentialSections(t) ==
    [c \in EvalTypes |->
        CASE c = "department" -> NineboxTemplate(t).potential_dept_line_ids
          [] c = "role" -> NineboxTemplate(t).potential_role_line_ids
          [] c = "common" -> NineboxTemplate(t).potential_common_line_ids]

\* C6: after action_load_criteria succeeds, the lines of the current
\* template type are exactly one copy of each template row whose section is
\* a selected evaluation type and whose team is a team of the employee,
\* with that type as line_type and the row's target, weightage and team.
C6_LoadCopiesMatchingRows ==
    (op.name = "action_load_criteria" /\ op.result = "ok")
    => /\ appraisal.appraisal_template_type = "okr"
          => ExactlyOneCopyOfEach(appraisal.okr_line_ids,
                 MatchingRows(OkrSections(appraisal.okr_template_id),
                     appraisal.evaluation_type_ids, appraisal.employee_id))
       /\ appraisal.appraisal_template_type = "ninebox"
          => /\ ExactlyOneCopyOfEach(appraisal.ninebox_performance_line_ids,
                    MatchingRows(
                        PerformanceSections(appraisal.ninebox_template_id),
                        appraisal.evaluation_type_ids, appraisal.employee_id))
             /\ ExactlyOneCopyOfEach(appraisal.ninebox_potential_line_ids,
                    MatchingRows(
                        PotentialSections(appraisal.ninebox_template_id),
                        appraisal.evaluation_type_ids, appraisal.employee_id))

\* C6 witness: a successful load of two evaluation types, from a template
\* that also has a row of a team the employee is not in, onto a record
\* whose earlier loaded lines had been written to.
C6_Witness ==
    /\ op.name = "action_load_criteria"
    /\ op.result = "ok"
    /\ writes > 0
    /\ appraisal.okr_template_id = "O1"
    /\ appraisal.employee_id = "e1"
    /\ appraisal.evaluation_type_ids = {"department", "role"}
    /\ Len(appraisal.okr_line_ids) = 2

\* The candidate templates of an employee: the active templates whose
\* weightage table names a team of the employee.
CandidateOkr(e) ==
    {t \in OkrTemplates :
        /\ OkrTemplate(t).active
        /\ OkrTemplate(t).weightage_team_ids \cap TeamsOf(e) # {}}

CandidateNinebox(e) ==
    {t \in NineboxTemplates :
        /\ NineboxTemplate(t).active
        /\ (NineboxTemplate(t).performance_weightage_team_ids
               \cup NineboxTemplate(t).potential_weightage_team_ids)
                  \cap TeamsOf(e) # {}}

\* C7: after an employee change, if exactly one candidate template (OKR or
\* 9-box) exists for the employee's teams it is selected and
\* appraisal_template_type is its kind; otherwise no OKR or 9-box template
\* is selected and appraisal_template_type is neither okr nor ninebox.
C7_AutoDetectExactlyOne ==
    EmployeeChanged(op.name, appraisal)
    => LET e == appraisal.employee_id
           okr == IF e = NoRecord THEN {} ELSE CandidateOkr(e)
           ninebox == IF e = NoRecord THEN {} ELSE CandidateNinebox(e)
       IN  IF Cardinality(okr) + Cardinality(ninebox) = 1
           THEN \/ /\ appraisal.okr_template_id \in okr
                   /\ appraisal.ninebox_template_id = NoRecord
                   /\ appraisal.appraisal_template_type = "okr"
                \/ /\ appraisal.ninebox_template_id \in ninebox
                   /\ appraisal.okr_template_id = NoRecord
                   /\ appraisal.appraisal_template_type = "ninebox"
           ELSE /\ appraisal.okr_template_id = NoRecord
                /\ appraisal.ninebox_template_id = NoRecord
                /\ appraisal.appraisal_template_type \notin {"okr", "ninebox"}

\* C7 witness: the employee was changed to one with a single candidate, a
\* 9-box template, and it was selected.
C7_Witness ==
    /\ op.name = "_onchange_employee_id_badge"
    /\ appraisal.employee_id = "e2"
    /\ appraisal.ninebox_template_id = "N1"
    /\ appraisal.appraisal_template_type = "ninebox"

\* Fractions <<numerator, denominator>> with positive denominators are
\* equal when the cross products are.
SameFraction(x, y) == x[1] * y[2] = y[1] * x[2]

\* achievement_percentage of a line or criteria record is
\* actual_value / target_value * 100 for a positive target, and 0 otherwise.
AchievementOf(l) ==
    IF l.target_value[1] > 0
    THEN SameFraction(l.achievement_percentage,
             <<100 * l.actual_value[1] * l.target_value[2],
               l.actual_value[2] * l.target_value[1]>>)
    ELSE l.achievement_percentage[1] = 0

\* C8: for every criteria line (OKR, 9-box performance, 9-box potential,
\* appraisal.criteria.data), achievement_percentage is
\* actual_value / target_value * 100 when target_value > 0, and 0 when
\* target_value <= 0.
C8_AchievementPercentage ==
    \A l \in AllLines(appraisal) \cup Range(employee_appraisal.criteria_data_ids) :
        AchievementOf(l)

\* C8 witness: an appraisal.criteria.data record written to, with target
\* 4, actual 1.236 and achievement 30.9.
C8_Witness ==
    /\ op.name = "criteria_data_write"
    /\ \E l \in Range(employee_appraisal.criteria_data_ids) :
          /\ l.target_value = R(4)
          /\ l.actual_value = Dec(1236)
          /\ l.achievement_percentage = Rat(309, 10)

\* C9: for every OKR, 9-box performance and 9-box potential line,
\* weighted_score = achievement_percentage / 100 * weightage.
C9_WeightedScore ==
    \A l \in AllLines(appraisal) :
        SameFraction(l.weighted_score,
            <<l.achievement_percentage[1] * l.weightage[1],
              100 * l.achievement_percentage[2] * l.weightage[2]>>)

\* C9 witness: a 9-box performance line written to, with a score that is
\* no whole number.
C9_Witness ==
    /\ op.name = "write"
    /\ \E l \in Range(appraisal.ninebox_performance_line_ids) :
          /\ l.actual_value = Dec(1236)
          /\ l.weighted_score[2] # 1

RECURSIVE SumOfWeightedScores(_)
\* The sum of weighted_score over lines, as a fraction not reduced.
SumOfWeightedScores(lines) ==
    IF lines = <<>> THEN <<0, 1>>
    ELSE LET rest == SumOfWeightedScores(Tail(lines))
             w == Head(lines).weighted_score
         IN  <<rest[1] * w[2] + w[1] * rest[2], rest[2] * w[2]>>

\* C10: final_score is the sum of weighted_score over the OKR lines when
\* appraisal_template_type is okr, (sum over performance lines + sum over
\* potential lines) / 2 when it is ninebox, and 0 when it is survey.
C10_FinalScore ==
    LET okr == SumOfWeightedScores(appraisal.okr_line_ids)
        both == SumOfWeightedScores(appraisal.ninebox_performance_line_ids
                    \o appraisal.ninebox_potential_line_ids)
    IN  /\ appraisal.appraisal_template_type = "okr"
           => SameFraction(appraisal.final_score, okr)
        /\ appraisal.appraisal_template_type = "ninebox"
           => SameFraction(appraisal.final_score, <<both[1], 2 * both[2]>>)
        /\ appraisal.appraisal_template_type = "survey"
           => appraisal.final_score[1] = 0

\* C10 witness: a 9-box appraisal with loaded performance and potential
\* lines whose totals, 25 and 37.5, average to 31.25.
C10_Witness ==
    /\ appraisal.appraisal_template_type = "ninebox"
    /\ appraisal.ninebox_performance_line_ids # <<>>
    /\ appraisal.ninebox_potential_line_ids # <<>>
    /\ appraisal.final_score = Rat(125, 4)

\* The band of a score n / d, by comparison of integers.
BandOf(score) ==
    IF score[1] >= 90 * score[2] THEN "outstanding"
    ELSE IF score[1] >= 75 * score[2] THEN "exceeds"
    ELSE IF score[1] >= 60 * score[2] THEN "meets"
    ELSE IF score[1] >= 40 * score[2] THEN "needs_improvement"
    ELSE "unsatisfactory"

\* C11: performance_rating is a function of final_score alone: outstanding
\* from 90, exceeds from 75 to below 90, meets from 60 to below 75,
\* needs_improvement from 40 to below 60, unsatisfactory below 40.
C11_RatingBands ==
    op.name = "_compute_performance_rating"
    => appraisal.performance_rating = BandOf(appraisal.final_score)

\* C11 witness: a score of exactly 75, rated exceeds.
C11_Witness ==
    /\ op.name = "_compute_performance_rating"
    /\ appraisal.final_score = R(75)
    /\ appraisal.performance_rating = "exceeds"

\* The place of a rating in the order from unsatisfactory to outstanding.
Rank(rating) == CHOOSE i \in 1..Len(RatingOrder) : RatingOrder[i] = rating

\* The rating _compute_performance_rating gives a score.
RatingOf(score) ==
    _compute_performance_rating(
        [NewAppraisal EXCEPT !.final_score = score]).performance_rating

InRange(score) == RatGE(score, R(0)) /\ RatGE(R(100), score)

\* C12: over [0, 100] every score has one of the five ratings, and a score
\* s1 <= s2 never has a better rating than s2, in the order unsatisfactory <
\* needs_improvement < meets < exceeds < outstanding.
C12_RatingMonotonic ==
    (op.name = "_compute_performance_rating" /\ InRange(appraisal.final_score))
    => /\ appraisal.performance_rating \in Ratings
       /\ \A s1 \in Scores :
             (InRange(s1) /\ RatGE(appraisal.final_score, s1))
             => /\ RatingOf(s1) \in Ratings
                /\ Rank(RatingOf(s1)) <= Rank(appraisal.performance_rating)

\* C12 witness: the score 100, rated outstanding, above every other score
\* of the range.
C12_Witness ==
    /\ op.name = "_compute_performance_rating"
    /\ appraisal.final_score = R(100)
    /\ appraisal.performance_rating = "outstanding"
    /\ \E s1 \in Scores : InRange(s1) /\ RatingOf(s1) = "unsatisfactory"


\* ------------------------------------------------------------------ C13

\* The sheet the parse reads for the lines of one field, as a sequence of
\* at most one sheet: the first sheet for the OKR lines of an 'okr'
\* appraisal, the sheet named Performance or Potential for the 9-box lines
\* of a 'ninebox' appraisal.
SheetRead(self, data, field) ==
    IF self.appraisal_template_type = "okr" /\ field = "okr_line_ids"
    THEN (IF data.sheets = <<>> THEN <<>> ELSE <<data.sheets[1]>>)
    ELSE IF self.appraisal_template_type = "ninebox"
            /\ field = "ninebox_performance_line_ids"
    THEN FirstSheetNamed(data.sheets, {"Performance"})
    ELSE IF self.appraisal_template_type = "ninebox"
            /\ field = "ninebox_potential_line_ids"
    THEN FirstSheetNamed(data.sheets, {"Potential"})
    ELSE <<>>

\* The spreadsheet row of line i: row 2 + its position in sequence order,
\* lines of equal sequence in record order.
RowOf(lines, i) ==
    2 + Cardinality({j \in 1..Len(lines) :
            \/ lines[j].sequence < lines[i].sequence
            \/ lines[j].sequence = lines[i].sequence /\ j < i})

\* The number the parse takes from the Actual cell of a row.
ParsedActual(cells, row) ==
    IF row \in DOMAIN cells THEN ParseFloat(cells[row]) ELSE R(0)

\* |x - y| > 0.001
BeyondThreshold(x, y) == RatGT(RatAbs(RatSub(x, y)), Dec(1))

\* The written line is the old line with another actual_value.
OnlyActualWritten(old, new) ==
    /\ new.sequence = old.sequence
    /\ new.line_type = old.line_type
    /\ new.objective_breakdown = old.objective_breakdown
    /\ new.target_value = old.target_value
    /\ new.weightage = old.weightage
    /\ new.team_id = old.team_id

\* C13: when the spreadsheet is parsed back into the criteria lines, a line
\* whose parsed Actual cell differs from its actual_value by more than 0.001
\* gets the parsed number as its actual_value, and a line whose cell is
\* within 0.001 of its actual_value is left exactly as it was.
C13_ParseWritesBeyondThreshold ==
    [][(op'.name = "action_refresh_spreadsheet" /\ op'.result = "ok") =>
        \A field \in LineFields :
            LET sheet == SheetRead(appraisal, appraisal.spreadsheet_raw, field)
                old == appraisal[field]
                new == appraisal'[field]
            IN  sheet # <<>> =>
                /\ Len(new) = Len(old)
                /\ \A i \in 1..Len(old) :
                     LET parsed == ParsedActual(sheet[1].cells, RowOf(old, i))
                     IN  IF BeyondThreshold(old[i].actual_value, parsed)
                         THEN /\ new[i].actual_value = parsed
                              /\ OnlyActualWritten(old[i], new[i])
                         ELSE new[i] = old[i]]_vars

\* The parse has run over an edited spreadsheet: a line kept its value
\* although its cell held another number, within 0.001 of it.
C13_Witness ==
    /\ op.name = "action_refresh_spreadsheet"
    /\ op.result = "ok"
    /\ \E field \in LineFields :
         LET sheet == SheetRead(appraisal, op.spreadsheet_raw, field)
             lines == appraisal[field]
         IN  /\ sheet # <<>>
             /\ \E i \in 1..Len(lines) :
                  LET row == RowOf(lines, i)
                      parsed == ParsedActual(sheet[1].cells, row)
                  IN  /\ row \in DOMAIN sheet[1].cells
                      /\ sheet[1].cells[row].kind = "number"
                      /\ parsed # lines[i].actual_value
                      /\ ~BeyondThreshold(lines[i].actual_value, parsed)

\* ------------------------------------------------------------------ C14

\* The One2many fields holding the lines of the current template type.
CurrentLineFields(self) ==
    IF self.appraisal_template_type = "okr" THEN {"okr_line_ids"}
    ELSE IF self.appraisal_template_type = "ninebox"
    THEN {"ninebox_performance_line_ids", "ninebox_potential_line_ids"}
    ELSE {}

\* The Actual cell of every line of the current template type holds the
\* line's actual_value rounded to 2 decimals.
InSync(self) ==
    \A field \in CurrentLineFields(self) :
    \A i \in 1..Len(self[field]) :
        LET sheet == SheetRead(self, self.spreadsheet_raw, field)
            row == RowOf(self[field], i)
        IN  /\ sheet # <<>>
            /\ row \in DOMAIN sheet[1].cells
            /\ sheet[1].cells[row] = str(Round2(self[field][i].actual_value))

\* C14: whenever a write changes actual_value on a criteria line (OKR, 9-box
\* performance or 9-box potential) of an appraisal that has a spreadsheet
\* and criteria_loaded true, the spreadsheet is regenerated: afterwards the
\* Actual cell of every line equals the line's actual_value rounded to 2
\* decimals.
C14_ActualChangeRegenerates ==
    [][(/\ op'.name = "write"
        /\ op'.result = "ok"
        /\ appraisal.spreadsheet_id # NoRecord
        /\ appraisal.criteria_loaded
        /\ Actuals(appraisal') # Actuals(appraisal))
       => InSync(appraisal')]_vars

\* ------------------------------------------------------------------ C15

\* C15: after a successful action_refresh_spreadsheet the Actual cell of
\* every line of the current template type equals the line's actual_value
\* rounded to 2 decimals, and every line whose Actual cell held a number
\* differing from its actual_value by more than 0.001 has that number as
\* its actual_value: the pull runs before the regeneration.
C15_RefreshPullsThenRegenerates ==
    [][(op'.name = "action_refresh_spreadsheet" /\ op'.result = "ok") =>
        /\ InSync(appraisal')
        /\ \A field \in CurrentLineFields(appraisal) :
             LET sheet == SheetRead(appraisal, appraisal.spreadsheet_raw, field)
                 old == appraisal[field]
             IN  sheet # <<>> =>
                 \A i \in 1..Len(old) :
                    LET row == RowOf(old, i)
                        cells == sheet[1].cells
                    IN  (/\ row \in DOMAIN cells
                         /\ cells[row].kind = "number"
                         /\ BeyondThreshold(old[i].actual_value,
                                            cells[row].value))
                        => appraisal'[field][i].actual_value
                               = cells[row].value]_vars

\* A refresh has succeeded over a cell the user had set to 7: the line now
\* holds 7 and the regenerated cell shows it.
C15_Witness ==
    /\ op.name = "action_refresh_spreadsheet"
    /\ op.result = "ok"
    /\ \E field \in CurrentLineFields(appraisal) :
         LET before == SheetRead(appraisal, op.spreadsheet_raw, field)
             after == SheetRead(appraisal, appraisal.spreadsheet_raw, field)
             lines == appraisal[field]
         IN  /\ before # <<>>
             /\ after # <<>>
             /\ \E i \in 1..Len(lines) :
                  LET row == RowOf(lines, i)
                  IN  /\ row \in DOMAIN before[1].cells
                      /\ before[1].cells[row] = str(R(7))
                      /\ lines[i].actual_value = R(7)
                      /\ after[1].cells[row] = str(R(7))

\* ------------------------------------------------------------------ C16

\* C16: available_okr_template_ids is exactly the set of active OKR
\* templates with a weightage row for a team the employee is a member of,
\* available_ninebox_template_ids exactly the set of active 9-box templates
\* with a performance or a potential weightage row for such a team, and
\* both are empty when there is no employee or the employee has no team.
C16_AvailableTemplates ==
    LET available == _compute_available_templates(appraisal)
        e == appraisal.employee_id
        teams == IF e = NoRecord THEN {} ELSE TeamsOf(e)
    IN  /\ available.available_okr_template_ids =
               {t \in OkrTemplates :
                   /\ OkrTemplate(t).active
                   /\ \E team \in teams :
                          team \in OkrTemplate(t).weightage_team_ids}
        /\ available.available_ninebox_template_ids =
               {t \in NineboxTemplates :
                   /\ NineboxTemplate(t).active
                   /\ \E team \in teams :
                       \/ team \in NineboxTemplate(t).performance_weightage_team_ids
                       \/ team \in NineboxTemplate(t).potential_weightage_team_ids}
        /\ (e = NoRecord \/ teams = {}) =>
               /\ available.available_okr_template_ids = {}
               /\ available.available_ninebox_template_ids = {}

\* The appraisal of e2, whose team tB has a row in the archived OKR template
\* O3 and a performance row in the 9-box template N1: only N1 is available.
C16_Witness ==
    /\ model = "hr.appraisal"
    /\ appraisal.employee_id = "e2"
    /\ OkrTemplate("O3").weightage_team_ids \cap TeamsOf("e2") # {}
    /\ _compute_available_templates(appraisal).available_okr_template_ids = {}
    /\ _compute_available_templates(appraisal).available_ninebox_template_ids
           = {"N1"}

\* ------------------------------------------------------------------ C17

\* C17: action_generate_spreadsheet ends in an error, with the linked
\* spreadsheet, its data and the spreadsheet records as they were, when
\* criteria_loaded is false or the type is 'survey'; when it succeeds on an
\* appraisal that has a spreadsheet, spreadsheet_id is unchanged, no record
\* is created and the spreadsheet holds the newly generated data; and there
\* is never more than one spreadsheet record, the linked one.
C17_GenerateKeepsOneSpreadsheet ==
    [][op'.name = "action_generate_spreadsheet" =>
        /\ (~appraisal.criteria_loaded
                \/ appraisal.appraisal_template_type = "survey") =>
               /\ op'.result = "error"
               /\ appraisal'.spreadsheet_id = appraisal.spreadsheet_id
               /\ appraisal'.spreadsheet_raw = appraisal.spreadsheet_raw
               /\ spreadsheets' = spreadsheets
        /\ (op'.result = "ok" /\ appraisal.spreadsheet_id # NoRecord) =>
               /\ appraisal'.spreadsheet_id = appraisal.spreadsheet_id
               /\ spreadsheets' = spreadsheets
               /\ InSync(appraisal')
        /\ Cardinality(spreadsheets') <= 1
        /\ appraisal'.spreadsheet_id \in spreadsheets' \cup {NoRecord}]_vars

\* A second generation has succeeded, over a spreadsheet whose cells the
\* first generation had filled: one record exists and it is linked.
C17_Witness ==
    /\ op.name = "action_generate_spreadsheet"
    /\ op.result = "ok"
    /\ op.spreadsheet_raw # NoData
    /\ op.spreadsheet_raw # appraisal.spreadsheet_raw
    /\ spreadsheets = {appraisal.spreadsheet_id}

\* ------------------------------------------------------------------ C18

\* C18: the onchange of appraisal_template_type only warns, leaving
\* criteria_loaded and evaluation_type_ids as they were, when the saved
\* record has another type and criteria_loaded true; otherwise it sets
\* criteria_loaded to okr_criteria_loaded ('okr'), ninebox_criteria_loaded
\* ('ninebox') or false ('survey') and clears evaluation_type_ids when the
\* type differs from the saved one.  It never deletes a criteria line.
C18_TypeChangeWarnsOrSetsFlag ==
    [][op'.name = "_onchange_appraisal_template_type" =>
        LET t == appraisal'.appraisal_template_type
            differs == t # origin.appraisal_template_type
            warns == /\ origin.appraisal_template_type # NoRecord
                     /\ differs
                     /\ origin.criteria_loaded
        IN  /\ IF warns
               THEN /\ op'.result = "warning"
                    /\ appraisal'.criteria_loaded = appraisal.criteria_loaded
                    /\ appraisal'.evaluation_type_ids
                           = appraisal.evaluation_type_ids
               ELSE /\ op'.result = "ok"
                    /\ appraisal'.criteria_loaded =
                           (CASE t = "okr" -> appraisal.okr_criteria_loaded
                              [] t = "ninebox" ->
                                     appraisal.ninebox_criteria_loaded
                              [] t = "survey" -> FALSE)
                    /\ appraisal'.evaluation_type_ids =
                           IF differs THEN {}
                           ELSE appraisal.evaluation_type_ids
            /\ \A field \in LineFields : appraisal'[field] = appraisal[field]]_vars

\* The type of an appraisal saved as 'okr' with its criteria loaded was
\* changed: the handler warned, and line, flag and evaluation types remain.
C18_Witness ==
    /\ op.name = "_onchange_appraisal_template_type"
    /\ op.result = "warning"
    /\ origin.appraisal_template_type = "okr"
    /\ appraisal.appraisal_template_type = "ninebox"
    /\ appraisal.criteria_loaded
    /\ ~appraisal.ninebox_criteria_loaded
    /\ appraisal.evaluation_type_ids # {}
    /\ appraisal.okr_line_ids # <<>>

\* ------------------------------------------------------------------ C19

\* C19: in every reachable state the general flag agrees with the flag of
\* the selected type: criteria_loaded with type 'okr' implies
\* okr_criteria_loaded, with type 'ninebox' implies ninebox_criteria_loaded,
\* and with type 'survey' criteria_loaded is false.
C19_LoadedFlagAgrees ==
    /\ (appraisal.criteria_loaded /\ appraisal.appraisal_template_type = "okr")
           => appraisal.okr_criteria_loaded
    /\ (appraisal.criteria_loaded
            /\ appraisal.appraisal_template_type = "ninebox")
           => appraisal.ninebox_criteria_loaded
    /\ appraisal.appraisal_template_type = "survey"
           => ~appraisal.criteria_loaded

\* ------------------------------------------------------------------ C20

\* The Actual cell of a row is missing, or holds a text or a formula.
NoNumberAt(cells, row) ==
    \/ row \notin DOMAIN cells
    \/ cells[row].kind \in {"text", "formula"}

\* C20: the parse does not fail on a line whose Actual cell is missing or
\* holds a text or a formula, and treats the cell as 0: the line's
\* actual_value becomes 0 when it differs from 0 by more than 0.001, and
\* stays as it is otherwise.
C20_UnparsedCellIsZero ==
    [][(/\ op'.name = "action_refresh_spreadsheet"
        /\ appraisal.spreadsheet_id # NoRecord
        /\ appraisal.criteria_loaded
        /\ appraisal.spreadsheet_raw.sheets # <<>>) =>
        /\ op'.result = "ok"
        /\ \A field \in LineFields :
             LET sheet == SheetRead(appraisal, appraisal.spreadsheet_raw, field)
                 old == appraisal[field]
             IN  sheet # <<>> =>
                 \A i \in 1..Len(old) :
                    NoNumberAt(sheet[1].cells, RowOf(old, i)) =>
                        appraisal'[field][i].actual_value =
                            IF BeyondThreshold(old[i].actual_value, R(0))
                            THEN R(0) ELSE old[i].actual_value]_vars

\* The parse has run over a sheet whose cell G2 the user had removed: the
\* performance line copied from the template with actual_value 1 now has 0.
C20_Witness ==
    /\ op.name = "action_refresh_spreadsheet"
    /\ op.result = "ok"
    /\ LET sheet == SheetRead(appraisal, op.spreadsheet_raw,
                              "ninebox_performance_line_ids")
           lines == appraisal.ninebox_performance_line_ids
       IN  /\ sheet # <<>>
           /\ \E i \in 1..Len(lines) :
                /\ RowOf(lines, i) \notin DOMAIN sheet[1].cells
                /\ lines[i].objective_breakdown = "n1-perf-dept-B"
                /\ lines[i].actual_value = R(0)

\* ------------------------------------------------------------------ C21

\* The fields of an appraisal the pull has no reason to touch: all but the
\* three line lists and the scores computed from them.
PullFrame(self) ==
    [f \in (DOMAIN self) \ (LineFields \cup
                {"total_okr_score", "total_performance_score",
                 "total_potential_score", "final_score",
                 "performance_rating"}) |-> self[f]]

\* C21: _sync_spreadsheet_to_criteria ends in an error and changes nothing
\* when the appraisal has no spreadsheet, criteria_loaded is false or the
\* spreadsheet has no sheets; otherwise it leaves the spreadsheet data (no
\* regeneration), the number of lines and every line's target_value,
\* weightage, sequence and line_type as they were: on the lines only
\* actual_value and the fields computed from it change.
C21_PullChangesOnlyActuals ==
    LET pulled == _sync_spreadsheet_to_criteria(appraisal)
    IN  IF \/ appraisal.spreadsheet_id = NoRecord
           \/ ~appraisal.criteria_loaded
           \/ appraisal.spreadsheet_raw.sheets = <<>>
        THEN /\ pulled.result = "error"
             /\ pulled.self = appraisal
        ELSE /\ pulled.self.spreadsheet_raw = appraisal.spreadsheet_raw
             /\ PullFrame(pulled.self) = PullFrame(appraisal)
             /\ \A field \in LineFields :
                  /\ Len(pulled.self[field]) = Len(appraisal[field])
                  /\ \A i \in 1..Len(appraisal[field]) :
                       OnlyActualWritten(appraisal[field][i],
                                         pulled.self[field][i])

\* An appraisal whose spreadsheet the user has edited: the pull takes the
\* edited number into a line and leaves the spreadsheet data as edited.
C21_Witness ==
    LET pulled == _sync_spreadsheet_to_criteria(appraisal)
    IN  /\ op.name = "edit_cell"
        /\ pulled.result = "ok"
        /\ Actuals(pulled.self) # Actuals(appraisal)
        /\ pulled.self.spreadsheet_raw = appraisal.spreadsheet_raw
        /\ ~InSync(pulled.self)

\* ------------------------------------------------------------------ C22

\* C22: a successful action_load_criteria that directly follows a
\* successful action_load_criteria leaves the lines exactly as the first
\* load made them; loading OKR criteria leaves the 9-box performance and
\* potential lines and ninebox_criteria_loaded as they were, and loading
\* 9-box criteria leaves the OKR lines and okr_criteria_loaded as they were.
C22_LoadIdempotentAndLocal ==
    [][(op'.name = "action_load_criteria" /\ op'.result = "ok") =>
        /\ appraisal'.appraisal_template_type = "okr" =>
               /\ appraisal'.ninebox_performance_line_ids
                      = appraisal.ninebox_performance_line_ids
               /\ appraisal'.ninebox_potential_line_ids
                      = appraisal.ninebox_potential_line_ids
               /\ appraisal'.ninebox_criteria_loaded
                      = appraisal.ninebox_criteria_loaded
        /\ appraisal'.appraisal_template_type = "ninebox" =>
               /\ appraisal'.okr_line_ids = appraisal.okr_line_ids
               /\ appraisal'.okr_criteria_loaded = appraisal.okr_criteria_loaded
        /\ (op.name = "action_load_criteria" /\ op.result = "ok") =>
               \A field \in LineFields : appraisal'[field] = appraisal[field]]_vars

\* 9-box criteria were loaded into an appraisal that holds OKR lines of an
\* earlier load: both kinds of lines are there, each with its flag.
C22_Witness ==
    /\ op.name = "action_load_criteria"
    /\ op.result = "ok"
    /\ appraisal.appraisal_template_type = "ninebox"
    /\ appraisal.ninebox_criteria_loaded
    /\ appraisal.okr_criteria_loaded
    /\ appraisal.okr_line_ids # <<>>
    /\ Len(appraisal.ninebox_performance_line_ids)
           + Len(appraisal.ninebox_potential_line_ids) > 0

\* ------------------------------------------------------------------ C23

\* C23: after the onchange handler of employee_id has run, employee_badge_id
\* is empty or is the badge of the selected employee.
C23_BadgeFollowsEmployee ==
    op.name = "_onchange_employee_id_badge" =>
        \/ appraisal.employee_badge_id = NoRecord
        \/ badge_employee_id(appraisal.employee_badge_id)
               = appraisal.employee_id

\* ------------------------------------------------------------------ C24

====
